---- MODULE Spec2Model ----
(***************************************************************************)
(* Model of tools/bids-importer.py: the reconciliation of a local BIDS     *)
(* tree against a Girder folder and the grouped, recursive upload.         *)
(*                                                                         *)
(* Strings are sequences of tokens; every token stands for an indivisible  *)
(* run of characters and "." is always a token of its own, so that         *)
(* str.endswith, str.startswith, slicing a recognised suffix off and       *)
(* os.path.splitext are plain sequence operations.                         *)
(* A relative path is the sequence of its components (os.path.join).       *)
(***************************************************************************)
EXTENDS Integers, Sequences, FiniteSets, TLC

VARIABLES
    local_files,       \* compare_structures: first argument, path -> size
    girder_structure,  \* compare_structures: second argument, path -> record
    comparison,        \* the last value compare_structures returned: its four lists
                       \* as sets, or as the lists themselves in SpecCompareSteps
    cmp_prev,          \* the value returned by the call before the last
    cmp_runs,          \* number of calls of compare_structures so far
    tree,              \* the local dataset: directory path -> [files: name -> size]
    skip_files,        \* set of root-relative paths excluded from the upload
    folders,           \* the remote store's folders: id -> [name, parentId, meta]
    items,             \* the remote store's items: id -> [name, folderId, files, meta]
    nextId,            \* the identifier the store gives to the next folder or item
    stack,             \* the active calls of upload_directory_recursively (of
                       \* compare_structures in SpecCompareSteps)
    log,               \* the remote calls issued so far, in order (the listings of child
                       \* folders that succeed are left out)
    fail_left,         \* remote failures the environment may still inject
    run,               \* number of the current run of the program
    done,              \* history: the file groups the upload loop has handled
    args,              \* command-line options of the current run
    mstack,            \* the active calls of delete_folder_contents or extract_bids_metadata
    snap,              \* history: the remote store, the number of comparisons and
                       \* the arguments when the previous run ended
    mdone,             \* history: the sidecars the metadata pass has handled, with the outcome
    pc                 \* position of the run

(***************************************************************************)
(* Bounds of the model.                                                    *)
(***************************************************************************)
MaxPaths == 3        \* path keys a compared mapping may hold
MaxCompareRuns == 2  \* calls of compare_structures on the same inputs
MaxTreeFiles == 3    \* files of a local tree
MaxFailures == 1     \* injected remote failures in one run
MaxRuns == 2         \* runs of the program against the same destination
MaxRemoteItems == 3  \* items a generated remote store may hold

(***************************************************************************)
(* String helpers.                                                         *)
(***************************************************************************)
NiiGzSuffix == <<".", "nii", ".", "gz">>
NiiSuffix == <<".", "nii">>
JsonSuffix == <<".", "json">>

\* s.endswith(suf)
EndsWith(s, suf) ==
    /\ Len(s) >= Len(suf)
    /\ SubSeq(s, Len(s) - Len(suf) + 1, Len(s)) = suf

\* s.startswith(pre)
StartsWith(s, pre) ==
    /\ Len(s) >= Len(pre)
    /\ SubSeq(s, 1, Len(pre)) = pre

\* s[:-k]
DropLast(s, k) == SubSeq(s, 1, Len(s) - k)

Max(a, b) == IF a >= b THEN a ELSE b
Abs(a) == IF a >= 0 THEN a ELSE 0 - a

\* the orders in which the members of a set may be yielded: a listing comes
\* in the server's order and a Python set in its own, the code takes the
\* members as they come
RECURSIVE Orderings(_)
Orderings(S) ==
    IF S = {} THEN {<<>>}
    ELSE UNION {{<<x>> \o o : o \in Orderings(S \ {x})} : x \in S}

\* os.path.splitext(name)[0]: cut at the last dot, unless only dots precede it
SplitextRoot(s) ==
    LET dots == {i \in 1..Len(s) : s[i] = "."}
    IN  IF dots = {} THEN s
        ELSE LET d == CHOOSE i \in dots : \A j \in dots : j <= i
             IN  IF \E j \in 1..(d - 1) : s[j] # "." THEN SubSeq(s, 1, d - 1)
                 ELSE s

(***************************************************************************)
(* Names and sizes the model draws its inputs from.                        *)
(***************************************************************************)
T1wStem == <<"sub-01", "_T1w">>
T1wNiiGz == T1wStem \o NiiGzSuffix
T1wNii == T1wStem \o NiiSuffix
T1wJson == T1wStem \o JsonSuffix
T1wTsv == T1wStem \o <<".", "tsv">>
DescJson == <<"dataset_description">> \o JsonSuffix
Readme == <<"README">>
AnatDir == <<"anat">>
FuncDir == <<"func">>

PathPool == << <<AnatDir, T1wNiiGz>>, <<DescJson>>, <<AnatDir, T1wJson>>, <<Readme>> >>
PathKeys == {PathPool[i] : i \in 1..(IF MaxPaths < Len(PathPool) THEN MaxPaths ELSE Len(PathPool))}

\* file sizes in bytes: zero and values on both sides of the 1% boundary, at
\* one hundred bytes and at one million bytes
LocalSizeSamples == {0, 100, 1000000}
RemoteSizeSamples == {0, 98, 99, 1009999, 1010001, 1010101, 1010102}

(***************************************************************************)
(* compare_structures                                                      *)
(***************************************************************************)
\* size_diff <= tolerance, with tolerance = max(local_size, girder_size) * 0.01.
\* The code compares an integer with a double; for sizes below 2^53 the
\* rounded product lies on the same side of every integer as max/100, so the
\* test is the integer test 100 * size_diff <= max.
WithinTolerance_OnePercentOfLocal(local_size, girder_size) ==
    100 * Abs(local_size - girder_size) <= local_size

WithinTolerance_Strict(local_size, girder_size) ==
    100 * Abs(local_size - girder_size) < Max(local_size, girder_size)

WithinTolerance(local_size, girder_size) ==
    100 * Abs(local_size - girder_size) <= Max(local_size, girder_size)

\* the dict appended to comparison['existing'] / comparison['modified']
CommonEntry(lf, gs, path) ==
    [path |-> path, local_size |-> lf[path], girder_size |-> gs[path].size,
     item_id |-> gs[path].item_id]

compare_structures_DropsRemoteOnly(lf, gs) ==
    LET common == DOMAIN lf \cap DOMAIN gs
    IN  [new |-> DOMAIN lf \ DOMAIN gs,
         existing |-> {CommonEntry(lf, gs, p) : p \in {q \in common : WithinTolerance(lf[q], gs[q].size)}},
         modified |-> {CommonEntry(lf, gs, p) : p \in {q \in common : ~WithinTolerance(lf[q], gs[q].size)}},
         missing_on_local |-> {}]

compare_structures_CommonAlsoNew(lf, gs) ==
    LET common == DOMAIN lf \cap DOMAIN gs
    IN  [new |-> DOMAIN lf,
         existing |-> {CommonEntry(lf, gs, p) : p \in {q \in common : WithinTolerance(lf[q], gs[q].size)}},
         modified |-> {CommonEntry(lf, gs, p) : p \in {q \in common : ~WithinTolerance(lf[q], gs[q].size)}},
         missing_on_local |-> DOMAIN gs \ DOMAIN lf]

\* The four lists are modelled as sets: each is built from a set of paths and
\* holds every path at most once; their order is the iteration order of a set.
compare_structures(lf, gs) ==
    LET local_paths == DOMAIN lf
        girder_paths == DOMAIN gs
        common_paths == local_paths \cap girder_paths
    IN  [new |-> local_paths \ girder_paths,
         existing |-> {CommonEntry(lf, gs, p) : p \in {q \in common_paths : WithinTolerance(lf[q], gs[q].size)}},
         modified |-> {CommonEntry(lf, gs, p) : p \in {q \in common_paths : ~WithinTolerance(lf[q], gs[q].size)}},
         missing_on_local |-> girder_paths \ local_paths]

EmptyComparison == [new |-> {}, existing |-> {}, modified |-> {}, missing_on_local |-> {}]

\* the paths of a list of entries
PathsOf(entries) == {e.path : e \in entries}


(***************************************************************************)
(* The local tree.                                                         *)
(***************************************************************************)
RootDir == <<>>
NoName == <<>>      \* absent member of a file group (no file has an empty name)
NoId == 0           \* absent identifier (identifiers start at 1)

\* os.listdir(local_path): the files and the sub-directories of a directory
FilesOf(d) == DOMAIN tree[d].files
SubDirsOf(d) ==
    {p[Len(p)] : p \in {q \in DOMAIN tree : Len(q) = Len(d) + 1 /\ SubSeq(q, 1, Len(d)) = d}}

\* os.path.relpath(local_item, bids_root)
RelPath(d, n) == Append(d, n)

IsNifti(n) == EndsWith(n, NiiGzSuffix) \/ EndsWith(n, NiiSuffix)
IsJson(n) == EndsWith(n, JsonSuffix)

\* name_base: the name with the recognised suffix stripped
NameBase(n) ==
    IF EndsWith(n, NiiGzSuffix) THEN DropLast(n, Len(NiiGzSuffix))
    ELSE IF EndsWith(n, NiiSuffix) THEN DropLast(n, Len(NiiSuffix))
    ELSE IF EndsWith(n, JsonSuffix) THEN DropLast(n, Len(JsonSuffix))
    ELSE SplitextRoot(n)

\* which key of files[name_base] a file is stored under
SlotOf(n) == IF IsNifti(n) THEN "nifti" ELSE IF IsJson(n) THEN "json" ELSE "other"

OrNoName(S) == IF S = {} THEN {NoName} ELSE S

\* files[name_base] after the listing loop. Two files of one base and one
\* slot overwrite each other, and the listing order (os.listdir, arbitrary)
\* decides which one stays: every survivor is a possible outcome.
GroupChoices(d, b) ==
    LET in(slot) == {n \in FilesOf(d) : NameBase(n) = b /\ SlotOf(n) = slot}
    IN  {[base |-> b, nifti |-> x, json |-> y, other |-> z] :
            x \in OrNoName(in("nifti")), y \in OrNoName(in("json")), z \in OrNoName(in("other"))}

\* the possible values of the dict `files` for directory d, as sets of groups
Groupings(d) ==
    LET bases == {NameBase(n) : n \in FilesOf(d)}
        all == UNION {GroupChoices(d, b) : b \in bases}
    IN  {{f[b] : b \in bases} : f \in {h \in [bases -> all] : \A b \in bases : h[b] \in GroupChoices(d, b)}}

(***************************************************************************)
(* The branch of the upload loop a file group takes.                       *)
(***************************************************************************)
GroupAction_PartialUploads(g, d, skip) ==
    IF g.nifti # NoName /\ g.json # NoName
    THEN IF RelPath(d, g.nifti) \in skip /\ RelPath(d, g.json) \in skip THEN "skip" ELSE "pair"
    ELSE IF g.nifti # NoName
    THEN IF RelPath(d, g.nifti) \in skip THEN "skip" ELSE "nifti"
    ELSE IF g.json # NoName
    THEN IF RelPath(d, g.json) \in skip THEN "skip" ELSE "json"
    ELSE IF RelPath(d, g.other) \in skip THEN "skip" ELSE "other"

GroupAction_SidecarNeverSkipped(g, d, skip) ==
    IF g.nifti # NoName /\ g.json # NoName
    THEN LET nifti_skipped == RelPath(d, g.nifti) \in skip
             json_skipped == RelPath(d, g.json) \in skip
         IN  IF nifti_skipped \/ json_skipped THEN "skip" ELSE "pair"
    ELSE IF g.nifti # NoName
    THEN IF RelPath(d, g.nifti) \in skip THEN "skip" ELSE "nifti"
    ELSE IF g.json # NoName
    THEN "json"
    ELSE IF RelPath(d, g.other) \in skip THEN "skip" ELSE "other"

GroupAction(g, d, skip) ==
    IF g.nifti # NoName /\ g.json # NoName
    THEN LET nifti_skipped == RelPath(d, g.nifti) \in skip
             json_skipped == RelPath(d, g.json) \in skip
         IN  IF nifti_skipped /\ json_skipped THEN "skip"
             ELSE IF nifti_skipped \/ json_skipped THEN "skip"
             ELSE "pair"
    ELSE IF g.nifti # NoName
    THEN IF RelPath(d, g.nifti) \in skip THEN "skip" ELSE "nifti"
    ELSE IF g.json # NoName
    THEN IF RelPath(d, g.json) \in skip THEN "skip" ELSE "json"
    ELSE IF RelPath(d, g.other) \in skip THEN "skip" ELSE "other"

\* the files uploaded into the item of a pair, in the order of the calls
PairOrder_PayloadFirst(g) == <<g.nifti, g.json>>

PairOrder(g) == <<g.json, g.nifti>>

\* item_name of a pair
PairItemName_Sidecar(g) == g.json

PairItemName(g) == g.nifti

\* the file a single-member branch uploads
SingleFile(act, g) ==
    IF act = "nifti" THEN g.nifti ELSE IF act = "json" THEN g.json ELSE g.other

\* remote calls the branch issues when none fails
CallCount(act) == IF act = "pair" THEN 3 ELSE IF act = "skip" THEN 0 ELSE 1

(***************************************************************************)
(* The remote store (Girder), as the client calls of the program see it.   *)
(***************************************************************************)
RootId == 1

ChildFolders(fs, parent) == {f \in DOMAIN fs : fs[f].parentId = parent}
ChildItems(its, folder) == {i \in DOMAIN its : its[i].folderId = folder}

NameTaken(fs, its, parent, name) ==
    \/ \E f \in ChildFolders(fs, parent) : fs[f].name = name
    \/ \E i \in ChildItems(its, parent) : its[i].name = name

\* The server makes the name of a new item unique among its siblings by
\* appending " (n)".
DupTag(n) == <<" (", ToString(n), ")">>
UniqueItemName(fs, its, folder, name) ==
    IF ~NameTaken(fs, its, folder, name) THEN name
    ELSE LET free == {n \in 1..(Cardinality(DOMAIN its) + Cardinality(DOMAIN fs) + 1) :
                        ~NameTaken(fs, its, folder, name \o DupTag(n))}
         IN  name \o DupTag(CHOOSE n \in free : \A m \in free : n <= m)

NewItem(fs, its, folder, name, files) ==
    [name |-> UniqueItemName(fs, its, folder, name), folderId |-> folder,
     files |-> files, meta |-> {}]

NewFolder_AtRoot(parent, name) == [name |-> name, parentId |-> RootId, meta |-> {}]

NewFolder(parent, name) == [name |-> name, parentId |-> parent, meta |-> {}]

\* the file a local file becomes on the store: its name, size and bytes
\* (the bytes are identified by the local path they were read from)
FileOf(d, n) == [name |-> n, size |-> tree[d].files[n], data |-> RelPath(d, n)]

\* one entry of the call log; dir and base name the local directory and the
\* file group the call was issued for
Call(op, target, name, ok, ret, d, b) ==
    [op |-> op, target |-> target, name |-> name, ok |-> ok, ret |-> ret, dir |-> d, base |-> b,
     run |-> run]

(***************************************************************************)
(* upload_directory_recursively                                            *)
(***************************************************************************)
Top == stack[Len(stack)]
\* one call: its directory, its parent container, the skip-set it was given,
\* and the groups and sub-directories its loops have not reached yet
Frame(d, parent, groups, skip) ==
    [dir |-> d, parent |-> parent, groups |-> groups, dirs |-> SubDirsOf(d), skip |-> skip]
ReplaceTop(fr) == [stack EXCEPT ![Len(stack)] = fr]
Pop == SubSeq(stack, 1, Len(stack) - 1)

\* upload_to_girder calls upload_directory_recursively on the root
BeginUpload ==
    /\ pc = "upload"
    /\ \E gs \in Groupings(RootDir) : stack' = <<Frame(RootDir, RootId, gs, skip_files)>>
    /\ pc' = "uploading"
    /\ UNCHANGED <<local_files, girder_structure, comparison, cmp_prev, cmp_runs,
                   tree, skip_files, folders, items, nextId, log, fail_left, run, done, args, mstack, snap, mdone>>

\* the calls of a pair: f = 0 when none fails, else the call that raises
PairLog(g, fr, f) ==
    LET id == IF f = 1 THEN NoId ELSE nextId
        order == PairOrder(g)
        create == Call("createItem", fr.parent, PairItemName(g), f # 1, id, fr.dir, g.base)
        up(k) == Call("uploadFileToItem", id, order[k], f # k + 1, NoId, fr.dir, g.base)
    IN  IF f = 1 THEN <<create>>
        ELSE IF f = 2 THEN <<create, up(1)>>
        ELSE <<create, up(1), up(2)>>

PairItems(g, fr, f) ==
    LET order == PairOrder(g)
        files == IF f = 0 THEN <<FileOf(fr.dir, order[1]), FileOf(fr.dir, order[2])>>
                 ELSE IF f = 3 THEN <<FileOf(fr.dir, order[1])>>
                 ELSE <<>>
    IN  IF f = 1 THEN items
        ELSE items @@ (nextId :> NewItem(folders, items, fr.parent, PairItemName(g), files))

\* the groups the loop has still to reach after the iteration for g, in which
\* call f raised (f = 0: none)
GroupsAfter_AbortOnFailure(fr, g, f) == IF f > 0 THEN {} ELSE fr.groups \ {g}

GroupsAfter(fr, g, f) == fr.groups \ {g}

\* one iteration of the loop over the file groups (the whole try block)
UploadGroup ==
    /\ pc = "uploading"
    /\ stack # <<>>
    /\ Top.groups # {}
    /\ \E g \in Top.groups, f \in 0..3 :
        LET fr == Top
            act == GroupAction(g, fr.dir, fr.skip)
        IN  /\ f <= CallCount(act)
            /\ f > 0 => fail_left > 0
            /\ fail_left' = IF f > 0 THEN fail_left - 1 ELSE fail_left
            /\ stack' = ReplaceTop([fr EXCEPT !.groups = GroupsAfter(fr, g, f)])
            /\ done' = done \cup {[run |-> run, dir |-> fr.dir, parent |-> fr.parent, group |-> g]}
            /\ IF act = "pair"
               THEN /\ log' = log \o PairLog(g, fr, f)
                    /\ items' = PairItems(g, fr, f)
                    /\ nextId' = IF f = 1 THEN nextId ELSE nextId + 1
               ELSE IF act = "skip"
               THEN UNCHANGED <<log, items, nextId>>
               ELSE LET n == SingleFile(act, g)
                    IN  /\ log' = Append(log, Call("upload", fr.parent, n, f = 0,
                                                   IF f = 0 THEN nextId ELSE NoId, fr.dir, g.base))
                        /\ items' = IF f = 0
                                    THEN items @@ (nextId :> NewItem(folders, items, fr.parent, n,
                                                                     <<FileOf(fr.dir, n)>>))
                                    ELSE items
                        /\ nextId' = IF f = 0 THEN nextId + 1 ELSE nextId
    /\ UNCHANGED <<local_files, girder_structure, comparison, cmp_prev, cmp_runs,
                   tree, skip_files, folders, pc, run, args, mstack, snap, mdone>>

\* matching_folder: the first child folder of the parent with the name
MatchingFolder(fs, parent, name) ==
    LET m == {f \in ChildFolders(fs, parent) : fs[f].name = name}
    IN  IF m = {} THEN NoId ELSE CHOOSE f \in m : \A h \in m : f <= h

\* the folder the subtree of directory `name` is uploaded into after the
\* creation failed with "already exists"
ReusedFolder_Parent(fs, parent, name) == parent

ReusedFolder(fs, parent, name) == MatchingFolder(fs, parent, name)

\* the active calls after the folder of sub-directory `child` could not be
\* created or found (`continue`): rest is the caller past this iteration
AfterFailedCreate_UsesParent(fr, rest, child) ==
    Append(ReplaceTop(rest),
           [dir |-> child, parent |-> fr.parent,
            groups |-> CHOOSE gs \in Groupings(child) : TRUE,
            dirs |-> SubDirsOf(child), skip |-> fr.skip])

AfterFailedCreate(fr, rest, child) == ReplaceTop(rest)

\* the skip-set the recursive call for a sub-directory is given
ChildSkip_Empty(fr) == {}

ChildSkip(fr) == fr.skip

\* one iteration of the loop over the sub-directories, up to the recursive call
EnterSubDir ==
    /\ pc = "uploading"
    /\ stack # <<>>
    /\ Top.groups = {}
    /\ Top.dirs # {}
    /\ \E name \in Top.dirs :
        LET fr == Top
            rest == [fr EXCEPT !.dirs = @ \ {name}]
            child == Append(fr.dir, name)
            taken == NameTaken(folders, items, fr.parent, name)
            post(ok, id) == Call("createFolder", fr.parent, name, ok, id, child, NoName)
            list(ok) == Call("listFolder", fr.parent, name, ok, NoId, child, NoName)
        IN  \/ \* the folder is created
               /\ ~taken
               /\ folders' = folders @@ (nextId :> NewFolder(fr.parent, name))
               /\ nextId' = nextId + 1
               /\ log' = Append(log, post(TRUE, nextId))
               /\ \E gs \in Groupings(child) :
                    stack' = Append(ReplaceTop(rest), Frame(child, nextId, gs, ChildSkip(fr)))
               /\ UNCHANGED <<fail_left, pc>>
            \/ \* "already exists": the folder is looked up and reused
               /\ taken
               /\ ReusedFolder(folders, fr.parent, name) # NoId
               /\ log' = log \o <<post(FALSE, NoId), list(TRUE)>>
               /\ \E gs \in Groupings(child) :
                    stack' = Append(ReplaceTop(rest),
                                    Frame(child, ReusedFolder(folders, fr.parent, name), gs,
                                          ChildSkip(fr)))
               /\ UNCHANGED <<folders, nextId, fail_left, pc>>
            \/ \* "already exists" (an item holds the name): no folder is found
               /\ taken
               /\ ReusedFolder(folders, fr.parent, name) = NoId
               /\ log' = log \o <<post(FALSE, NoId), list(TRUE)>>
               /\ stack' = AfterFailedCreate(fr, rest, child)
               /\ UNCHANGED <<folders, nextId, fail_left, pc>>
            \/ \* the creation fails for another reason: the subtree is dropped
               /\ fail_left > 0
               /\ fail_left' = fail_left - 1
               /\ log' = Append(log, post(FALSE, NoId))
               /\ stack' = AfterFailedCreate(fr, rest, child)
               /\ UNCHANGED <<folders, nextId, pc>>
            \/ \* "already exists", and the lookup raises inside the handler:
               \* the exception leaves this call of the function
               /\ taken
               /\ fail_left > 0
               /\ fail_left' = fail_left - 1
               /\ log' = log \o <<post(FALSE, NoId), list(FALSE)>>
               /\ stack' = Pop
               /\ pc' = IF Len(stack) = 1 THEN "upload_failed" ELSE pc
               /\ UNCHANGED <<folders, nextId>>
    /\ UNCHANGED <<local_files, girder_structure, comparison, cmp_prev, cmp_runs,
                   tree, skip_files, items, run, done, args, mstack, snap, mdone>>

\* where the run stands when a call of upload_directory_recursively returns:
\* the metadata pass follows the return of the outermost call only
AfterReturn_MetadataEarly(depth) == "uploaded"

AfterReturn(depth) == IF depth = 1 THEN "uploaded" ELSE "uploading"

\* the function returns: both loops are over
ReturnFromDir ==
    /\ pc = "uploading"
    /\ stack # <<>>
    /\ Top.groups = {}
    /\ Top.dirs = {}
    /\ stack' = Pop
    /\ pc' = AfterReturn(Len(stack))
    /\ UNCHANGED <<local_files, girder_structure, comparison, cmp_prev, cmp_runs,
                   tree, skip_files, folders, items, nextId, log, fail_left, run, done, args, mstack, snap, mdone>>

vars == <<local_files, girder_structure, comparison, cmp_prev, cmp_runs,
          tree, skip_files, folders, items, nextId, stack, log, fail_left, pc, run, done, args, mstack, snap, mdone>>

EmptyTree == (RootDir :> [files |-> <<>>])
EmptyStore == (RootId :> NewFolder(NoId, <<"dest">>))

(***************************************************************************)
(* SpecCompare: compare_structures applied to arbitrary bounded mappings.  *)
(***************************************************************************)
LocalMappings == UNION {[ks -> LocalSizeSamples] : ks \in SUBSET PathKeys}
RemoteRecord(s) == [size |-> s, item_id |-> 1]
RemoteMappings ==
    UNION {{[p \in ks |-> RemoteRecord(f[p])] : f \in [ks -> RemoteSizeSamples]} : ks \in SUBSET PathKeys}

InitCompare ==
    /\ local_files \in LocalMappings
    /\ girder_structure \in RemoteMappings
    /\ comparison = EmptyComparison
    /\ cmp_prev = EmptyComparison
    /\ cmp_runs = 0
    /\ tree = EmptyTree
    /\ skip_files = {}
    /\ folders = EmptyStore
    /\ items = <<>>
    /\ nextId = RootId + 1
    /\ stack = <<>>
    /\ log = <<>>
    /\ fail_left = 0
    /\ pc = "compare"
    /\ run = 1
    /\ done = {}
    /\ args = [skip_existing |-> FALSE, reset |-> FALSE, compare |-> FALSE]
    /\ mstack = <<>>
    /\ snap = [folders |-> <<>>, items |-> <<>>, cmp_runs |-> 0, args |-> args]
    /\ mdone = {}

\* one call of the function, taken as a whole
CallCompare ==
    /\ pc = "compare"
    /\ cmp_runs < MaxCompareRuns
    /\ comparison' = compare_structures(local_files, girder_structure)
    /\ cmp_prev' = comparison
    /\ cmp_runs' = cmp_runs + 1
    /\ UNCHANGED <<local_files, girder_structure, tree, skip_files, folders, items, nextId, stack, log, fail_left, pc, run, done, args, mstack, snap, mdone>>

NextCompare == CallCompare

SpecCompare == InitCompare /\ [][NextCompare]_vars

(***************************************************************************)
(* SpecCompareSteps: compare_structures statement by statement. The two    *)
(* arguments are the caller's objects: a statement that writes through a   *)
(* reference to one of them changes the mapping the caller holds. The      *)
(* lists of the result are kept in the order they are built in, and a set  *)
(* is iterated in any order.                                               *)
(***************************************************************************)
\* the sizes of the mappings: one local size, and remote sizes within and
\* beyond its tolerance
StepLocalSizes == {100}
StepRemoteSizes == {99, 98}
StepLocalMappings == UNION {[ks -> StepLocalSizes] : ks \in SUBSET PathKeys}
StepRemoteMappings ==
    UNION {{[p \in ks |-> RemoteRecord(f[p])] : f \in [ks -> StepRemoteSizes]} :
             ks \in SUBSET PathKeys}

\* the dict of four empty lists the function starts from
EmptyLists == [new |-> <<>>, existing |-> <<>>, modified |-> <<>>, missing_on_local |-> <<>>]

\* the members of a list
Elements(list) == {list[k] : k \in 1..Len(list)}

\* a returned dict with every list taken as the set of its members
SetsOf(c) ==
    [new |-> Elements(c.new), existing |-> Elements(c.existing),
     modified |-> Elements(c.modified), missing_on_local |-> Elements(c.missing_on_local)]

InitCompareSteps ==
    /\ local_files \in StepLocalMappings
    /\ girder_structure \in StepRemoteMappings
    /\ comparison = EmptyLists
    /\ cmp_prev = EmptyLists
    /\ cmp_runs = 0
    /\ tree = EmptyTree
    /\ skip_files = {}
    /\ folders = EmptyStore
    /\ items = <<>>
    /\ nextId = RootId + 1
    /\ stack = <<>>
    /\ log = <<>>
    /\ fail_left = 0
    /\ pc = "compare"
    /\ run = 1
    /\ done = {}
    /\ args = [skip_existing |-> FALSE, reset |-> FALSE, compare |-> FALSE]
    /\ mstack = <<>>
    /\ snap = [folders |-> <<>>, items |-> <<>>, cmp_runs |-> 0, args |-> args]
    /\ mdone = {}

\* the call begins: the dict of empty lists, the two sets of paths, the list
\* of the new paths and the set of the common paths
CompareEnter ==
    /\ pc = "compare"
    /\ cmp_runs < MaxCompareRuns
    /\ LET local_paths == DOMAIN local_files
           girder_paths == DOMAIN girder_structure
       IN  \E new \in Orderings(local_paths \ girder_paths) :
              stack' = <<[comparison |-> [EmptyLists EXCEPT !.new = new],
                          local_paths |-> local_paths,
                          girder_paths |-> girder_paths,
                          common_paths |-> local_paths \cap girder_paths,
                          pending |-> local_paths \cap girder_paths]>>
    /\ pc' = "comparing"
    /\ UNCHANGED <<local_files, girder_structure, comparison, cmp_prev, cmp_runs, tree,
                   skip_files, folders, items, nextId, log, fail_left, run, done, args,
                   mstack, snap, mdone>>

\* the object the entry of a common path is written to: the dict literal is
\* a new object, not the record of the path in the remote mapping
NewObject == <<"new object">>
RecordOf(path) == <<"girder_structure", path>>

EntryObject_RemoteRecord(path) == RecordOf(path)

EntryObject(path) == NewObject

\* one iteration of the loop over the common paths: the sizes are read
\* through local_info and girder_info, and the entry is appended to
\* comparison['existing'] or to comparison['modified']
CompareCommon ==
    /\ pc = "comparing"
    /\ stack[1].pending # {}
    /\ \E path \in stack[1].pending :
        LET fr == stack[1]
            local_size == local_files[path]
            girder_info == girder_structure[path]
            girder_size == girder_info.size
            written == CommonEntry(local_files, girder_structure, path)
            \* the object that is appended, with the keys written to it
            entry == IF EntryObject(path) = NewObject THEN written ELSE written @@ girder_info
            list == IF WithinTolerance(local_size, girder_size) THEN "existing" ELSE "modified"
        IN  /\ girder_structure' =
                  IF EntryObject(path) = NewObject THEN girder_structure
                  ELSE [girder_structure EXCEPT ![path] = entry]
            /\ stack' = <<[fr EXCEPT !.pending = @ \ {path},
                                     !.comparison[list] = Append(@, entry)]>>
    /\ UNCHANGED <<local_files, comparison, cmp_prev, cmp_runs, tree, skip_files, folders,
                   items, nextId, log, fail_left, pc, run, done, args, mstack, snap, mdone>>

\* the loop is over: the list of the paths missing locally, and the return
CompareReturn ==
    /\ pc = "comparing"
    /\ stack[1].pending = {}
    /\ \E missing \in Orderings(stack[1].girder_paths \ stack[1].local_paths) :
          comparison' = [stack[1].comparison EXCEPT !.missing_on_local = missing]
    /\ cmp_prev' = comparison
    /\ cmp_runs' = cmp_runs + 1
    /\ stack' = <<>>
    /\ pc' = "compare"
    /\ UNCHANGED <<local_files, girder_structure, tree, skip_files, folders, items, nextId,
                   log, fail_left, run, done, args, mstack, snap, mdone>>

NextCompareSteps ==
    \/ CompareEnter
    \/ CompareCommon
    \/ CompareReturn

SpecCompareSteps == InitCompareSteps /\ [][NextCompareSteps]_vars

(***************************************************************************)
(* Claims about compare_structures, checked under SpecCompare.             *)
(***************************************************************************)
Compared == cmp_runs > 0
NewP == comparison.new
ExistingP == PathsOf(comparison.existing)
ModifiedP == PathsOf(comparison.modified)
MissingP == comparison.missing_on_local

\* C1: the four returned sets, as sets of paths, are pairwise disjoint and
\* their union is the union of the local and the remote path keys.
C1_DisjointCover ==
    Compared =>
        /\ NewP \cap ExistingP = {}
        /\ NewP \cap ModifiedP = {}
        /\ NewP \cap MissingP = {}
        /\ ExistingP \cap ModifiedP = {}
        /\ ExistingP \cap MissingP = {}
        /\ ModifiedP \cap MissingP = {}
        /\ NewP \cup ExistingP \cup ModifiedP \cup MissingP
             = DOMAIN local_files \cup DOMAIN girder_structure

C1_Witness ==
    /\ Compared
    /\ NewP # {}
    /\ ExistingP # {}
    /\ MissingP # {}

\* C2: every path of both mappings is in exactly one of existing and
\* modified; new, existing and modified together are exactly the local paths;
\* missing_on_local is exactly the remote paths absent locally.
C2_Partition ==
    Compared =>
        /\ \A p \in DOMAIN local_files \cap DOMAIN girder_structure :
              (p \in ExistingP) # (p \in ModifiedP)
        /\ Cardinality(comparison.existing) + Cardinality(comparison.modified)
             = Cardinality(DOMAIN local_files \cap DOMAIN girder_structure)
        /\ NewP \cup ExistingP \cup ModifiedP = DOMAIN local_files
        /\ MissingP = DOMAIN girder_structure \ DOMAIN local_files

C2_Witness ==
    /\ Compared
    /\ ExistingP # {}
    /\ ModifiedP # {}
    /\ MissingP # {}

\* C3: a path of both mappings is existing exactly when
\* 100 * |local_size - remote_size| <= max(local_size, remote_size), and
\* modified otherwise.
C3_ToleranceRule ==
    Compared =>
        \A p \in DOMAIN local_files \cap DOMAIN girder_structure :
            LET l == local_files[p]
                r == girder_structure[p].size
                d == IF l >= r THEN l - r ELSE r - l
                m == IF l >= r THEN l ELSE r
            IN  /\ (p \in ExistingP) <=> (100 * d <= m)
                /\ (p \in ModifiedP) <=> ~(100 * d <= m)

\* a nonzero difference exactly on the boundary (100 against 99) is existing
\* and one just beyond it (100 against 98) is modified
C3_Witness ==
    /\ Compared
    /\ \E p \in ExistingP : local_files[p] = 100 /\ girder_structure[p].size = 99
    /\ \E p \in ModifiedP : local_files[p] = 100 /\ girder_structure[p].size = 98

\* C4 as stated: local 1,000,000 against remote 1,009,999 is existing and
\* local 1,000,000 against remote 1,010,001 is modified.
C4_Original ==
    Compared =>
        \A p \in DOMAIN local_files \cap DOMAIN girder_structure :
            /\ (local_files[p] = 1000000 /\ girder_structure[p].size = 1009999)
                   => p \in ExistingP
            /\ (local_files[p] = 1000000 /\ girder_structure[p].size = 1010001)
                   => p \in ModifiedP

\* C4 amended: local 1,000,000 against remote 1,009,999 and against remote
\* 1,010,001 are both existing (the tolerance is 1% of the larger size); the
\* first remote size above 1,000,000 classified modified is 1,010,102
\* (1,010,101 is still existing).
C4_Boundary ==
    Compared =>
        \A p \in DOMAIN local_files \cap DOMAIN girder_structure :
            /\ (local_files[p] = 1000000 /\ girder_structure[p].size = 1009999)
                   => p \in ExistingP /\ p \notin ModifiedP
            /\ (local_files[p] = 1000000 /\ girder_structure[p].size = 1010001)
                   => p \in ExistingP /\ p \notin ModifiedP
            /\ (local_files[p] = 1000000 /\ girder_structure[p].size = 1010101)
                   => p \in ExistingP /\ p \notin ModifiedP
            /\ (local_files[p] = 1000000 /\ girder_structure[p].size = 1010102)
                   => p \in ModifiedP /\ p \notin ExistingP

C4_Witness ==
    /\ Compared
    /\ \E p \in ExistingP : local_files[p] = 1000000 /\ girder_structure[p].size = 1010001
    /\ \E p \in ExistingP : local_files[p] = 1000000 /\ girder_structure[p].size = 1009999
    /\ \E p \in ModifiedP : local_files[p] = 1000000 /\ girder_structure[p].size = 1010102

\* what the statements of the function build is what the function taken as a
\* whole returns (SpecCompareSteps)
Compare_StepsAgree ==
    (cmp_runs >= 1) => SetsOf(comparison) = compare_structures(local_files, girder_structure)

\* C5 (SpecCompareSteps): a second call on the same mappings returns the same
\* four sets as the first, in whatever order either call iterates over its
\* sets of paths, and no statement of a call changes either mapping.
C5_Pure ==
    /\ [](cmp_runs >= 2 => SetsOf(comparison) = SetsOf(cmp_prev))
    /\ [][local_files' = local_files /\ girder_structure' = girder_structure]_vars

\* two calls have returned; they took the common paths in different orders,
\* and one path is beyond the tolerance
C5_Witness ==
    /\ cmp_runs >= 2
    /\ pc = "compare"
    /\ Len(comparison.existing) >= 2
    /\ comparison.existing # cmp_prev.existing
    /\ comparison.modified # <<>>

(***************************************************************************)
(* SpecUpload: upload_directory_recursively on bounded local trees, with   *)
(* any skip-set, an empty or a populated destination, and remote failures. *)
(***************************************************************************)
\* the file names a directory of a generated tree may hold
UploadFilePool(d) ==
    IF d = RootDir THEN {T1wNiiGz, T1wJson, T1wTsv, DescJson}
    ELSE IF d = <<AnatDir>> THEN {T1wNiiGz, T1wJson, T1wTsv, T1wNii}
    ELSE {T1wNiiGz, T1wJson}
FileSlots(dirs) == UNION {{<<d, n>> : n \in UploadFilePool(d)} : d \in dirs}
DirShapes ==
    { {RootDir},
      {RootDir, <<AnatDir>>},
      {RootDir, <<AnatDir>>, <<FuncDir>>},
      {RootDir, <<AnatDir>>, <<AnatDir, <<"ses-01">> >>} }

\* the trees over a set of directories holding the file slots `slots`
TreeOf(dirs, slots, size) ==
    [d \in dirs |-> [files |-> [n \in {m \in UploadFilePool(d) : <<d, m>> \in slots} |-> size]]]

BoundedSubsets(S, k) == {T \in SUBSET S : Cardinality(T) <= k}

UploadTrees ==
    UNION {{TreeOf(dirs, slots, 100) : slots \in BoundedSubsets(FileSlots(dirs), MaxTreeFiles)} :
              dirs \in DirShapes}

\* all root-relative paths of the files of a tree
TreePaths(t) == UNION {{Append(d, n) : n \in DOMAIN t[d].files} : d \in DOMAIN t}

\* destinations: empty, holding a folder "anat", holding an item named "anat"
StorePresets ==
    { [folders |-> EmptyStore, items |-> <<>>],
      [folders |-> EmptyStore @@ (2 :> NewFolder(RootId, AnatDir)), items |-> <<>>],
      [folders |-> EmptyStore,
       items |-> (2 :> [name |-> AnatDir, folderId |-> RootId, files |-> <<>>, meta |-> {}])] }

InitUpload ==
    /\ tree \in UploadTrees
    /\ skip_files \in SUBSET TreePaths(tree)
    /\ \E st \in StorePresets : folders = st.folders /\ items = st.items
    /\ nextId = 3
    /\ stack = <<>>
    /\ log = <<>>
    /\ fail_left = MaxFailures
    /\ pc = "upload"
    /\ run = 1
    /\ done = {}
    /\ args = [skip_existing |-> FALSE, reset |-> FALSE, compare |-> FALSE]
    /\ mstack = <<>>
    /\ snap = [folders |-> <<>>, items |-> <<>>, cmp_runs |-> 0, args |-> args]
    /\ mdone = {}
    /\ local_files = <<>>
    /\ girder_structure = <<>>
    /\ comparison = EmptyComparison
    /\ cmp_prev = EmptyComparison
    /\ cmp_runs = 0

NextUpload ==
    \/ BeginUpload
    \/ UploadGroup
    \/ EnterSubDir
    \/ ReturnFromDir

SpecUpload == InitUpload /\ [][NextUpload]_vars

(***************************************************************************)
(* scan_local_bids_structure and scan_girder_structure                     *)
(***************************************************************************)
\* os.walk over the tree: one entry per file, keyed by its relative path
scan_local_bids_structure(t) ==
    LET paths == UNION {{RelPath(d, n) : n \in DOMAIN t[d].files} : d \in DOMAIN t}
    IN  [p \in paths |-> t[SubSeq(p, 1, Len(p) - 1)].files[p[Len(p)]]]

\* file_obj.get('size', 0)
SizeOrZero(file_obj) == IF "size" \in DOMAIN file_obj THEN file_obj.size ELSE 0

RECURSIVE SumSizes(_)
SumSizes(files) == IF files = <<>> THEN 0 ELSE SizeOrZero(Head(files)) + SumSizes(Tail(files))

\* the size recorded for an item
ItemSize_FirstFile(files) == IF files = <<>> THEN 0 ELSE SizeOrZero(Head(files))

ItemSize(files) == SumSizes(files)

RECURSIVE scan_girder_structure(_, _, _, _)
RECURSIVE ScanSubFolders(_, _, _, _)
scan_girder_structure(fs, its, folder_id, base_path) ==
    LET mine == ChildItems(its, folder_id)
        own == [p \in {Append(base_path, its[i].name) : i \in mine} |->
                  LET i == CHOOSE j \in mine : Append(base_path, its[j].name) = p
                  IN  [size |-> ItemSize(its[i].files), item_id |-> i]]
    IN  ScanSubFolders(fs, its, ChildFolders(fs, folder_id), base_path) @@ own

\* girder_structure.update(subfolder_structure), for every child folder
ScanSubFolders(fs, its, S, base_path) ==
    IF S = {} THEN <<>>
    ELSE LET f == CHOOSE g \in S : TRUE
         IN  scan_girder_structure(fs, its, f, Append(base_path, fs[f].name))
                @@ ScanSubFolders(fs, its, S \ {f}, base_path)

\* the remote calls scan_girder_structure can issue on a folder: listItem,
\* listFile for every item as it is listed, listFolder, then the same for
\* every child folder as it is listed
RECURSIVE ScanCalls(_, _, _)
RECURSIVE ScanSubCalls(_, _, _)
ScanCalls(fs, its, folder_id) ==
    {<<Call("listItem", folder_id, NoName, TRUE, NoId, RootDir, NoName)>>
        \o [k \in 1..Len(mine) |->
              Call("listFile", mine[k], its[mine[k]].name, TRUE, NoId, RootDir, NoName)]
        \o <<Call("listFolder", folder_id, NoName, TRUE, NoId, RootDir, NoName)>>
        \o below :
            mine \in Orderings(ChildItems(its, folder_id)),
            below \in UNION {ScanSubCalls(fs, its, subs) :
                               subs \in Orderings(ChildFolders(fs, folder_id))}}

ScanSubCalls(fs, its, subs) ==
    IF subs = <<>> THEN {<<>>}
    ELSE {a \o b : a \in ScanCalls(fs, its, Head(subs)), b \in ScanSubCalls(fs, its, Tail(subs))}

\* the entries a walk leaves in the call log: the listings of child folders
\* are recorded only when they raise
Logged(calls) ==
    LET Kept(c) == c.op # "listFolder" \/ ~c.ok IN SelectSeq(calls, Kept)

\* a sequence of calls in which call k raises: the calls before it, and the
\* failed call
RaisedAt(calls, k) == Append(SubSeq(calls, 1, k - 1), [calls[k] EXCEPT !.ok = FALSE])

\* skip_files: the paths of comparison['existing']
SkipSetOf_AlsoModified(cmp) == PathsOf(cmp.existing) \cup PathsOf(cmp.modified)

SkipSetOf(cmp) == PathsOf(cmp.existing)

(***************************************************************************)
(* main and upload_to_girder                                               *)
(***************************************************************************)
\* the calls main issues itself under --skip-existing, before the scan
MainChecks ==
    <<Call("check_girder_connection", RootId, NoName, TRUE, RootId, RootDir, NoName),
      Call("authenticate", RootId, NoName, TRUE, RootId, RootDir, NoName)>>

\* the calls main issues itself under --compare, before the scan
CompareChecks ==
    MainChecks \o <<Call("getFolder", RootId, NoName, TRUE, RootId, RootDir, NoName)>>

\* the validation of the dataset, on unless --no-validate is given, fails:
\* main returns 1 before any remote call
ValidationFails ==
    /\ pc = "main"
    /\ \E s \in BOOLEAN, r \in BOOLEAN, c \in BOOLEAN :
          args' = [skip_existing |-> s, reset |-> r, compare |-> c]
    /\ pc' = "failed"
    /\ UNCHANGED <<local_files, girder_structure, comparison, cmp_prev, cmp_runs, tree,
                   skip_files, folders, items, nextId, stack, log, fail_left, run, done,
                   mstack, snap, mdone>>

\* --compare: the connection check, the authentication, getFolder and
\* check_existing_content; main returns 0 after the report and nothing is
\* uploaded; when one of the remote calls fails main returns 1
CompareOnly ==
    /\ pc = "main"
    /\ \E s \in BOOLEAN, r \in BOOLEAN :
          args' = [skip_existing |-> s, reset |-> r, compare |-> TRUE]
    /\ \E calls \in {CompareChecks \o c : c \in ScanCalls(folders, items, RootId)} :
        \/ LET lf == scan_local_bids_structure(tree)
               gs == scan_girder_structure(folders, items, RootId, <<>>)
           IN  /\ local_files' = lf
               /\ girder_structure' = gs
               /\ comparison' = compare_structures(lf, gs)
               /\ cmp_prev' = comparison
               /\ cmp_runs' = cmp_runs + 1
               /\ log' = log \o Logged(calls)
               /\ pc' = "done"
               /\ UNCHANGED fail_left
        \/ \E k \in 1..Len(calls) :
               /\ fail_left > 0
               /\ fail_left' = fail_left - 1
               /\ log' = log \o Logged(RaisedAt(calls, k))
               /\ pc' = "failed"
               /\ UNCHANGED <<local_files, girder_structure, comparison, cmp_prev, cmp_runs>>
    /\ UNCHANGED <<tree, skip_files, folders, items, nextId, stack, run, done, mstack,
                   snap, mdone>>

\* --skip-existing: the connection check, the authentication,
\* check_existing_content and the skip-set; when one of the remote calls
\* fails main returns 1 and upload_to_girder is never called
CheckExisting ==
    /\ pc = "main"
    /\ \E r \in BOOLEAN : args' = [skip_existing |-> TRUE, reset |-> r, compare |-> FALSE]
    /\ \E calls \in {MainChecks \o c : c \in ScanCalls(folders, items, RootId)} :
        \/ LET lf == scan_local_bids_structure(tree)
               gs == scan_girder_structure(folders, items, RootId, <<>>)
           IN  /\ local_files' = lf
               /\ girder_structure' = gs
               /\ comparison' = compare_structures(lf, gs)
               /\ cmp_prev' = comparison
               /\ skip_files' = SkipSetOf(compare_structures(lf, gs))
               /\ cmp_runs' = cmp_runs + 1
               /\ log' = log \o Logged(calls)
               /\ pc' = "preflight"
               /\ UNCHANGED fail_left
        \/ \E k \in 1..Len(calls) :
               /\ fail_left > 0
               /\ fail_left' = fail_left - 1
               /\ log' = log \o Logged(RaisedAt(calls, k))
               /\ pc' = "failed"
               /\ skip_files' = {}
               /\ UNCHANGED <<local_files, girder_structure, comparison, cmp_prev, cmp_runs>>
    /\ UNCHANGED <<tree, folders, items, nextId, stack, run, done, mstack, snap, mdone>>

\* without --skip-existing the skip-set stays empty
SkipNothing ==
    /\ pc = "main"
    /\ skip_files' = {}
    /\ \E r \in BOOLEAN : args' = [skip_existing |-> FALSE, reset |-> r, compare |-> FALSE]
    /\ pc' = "preflight"
    /\ UNCHANGED <<local_files, girder_structure, comparison, cmp_prev, cmp_runs, tree,
                   folders, items, nextId, stack, log, fail_left, run, done, mstack, snap, mdone>>

\* the calls of upload_to_girder before the upload pass: connectivity check,
\* authentication and getFolder; k = 0 when none fails, else the one that fails
PreflightOps == <<"check_girder_connection", "authenticate", "getFolder">>
PreflightLog(k) ==
    [j \in 1..(IF k = 0 THEN 3 ELSE k) |->
        Call(PreflightOps[j], RootId, NoName, j # k, IF j # k THEN RootId ELSE NoId,
             RootDir, NoName)]

\* where upload_to_girder goes when one of these calls fails (return False)
AfterPreflightFailure_Continues == IF args.reset THEN "reset" ELSE "upload"

AfterPreflightFailure == "failed"

\* upload_to_girder up to the upload pass; any of the three calls failing
\* ends the run
\* what follows the three checks: in RESET_DATABASE mode the destination
\* folder is emptied before the upload pass
AfterPreflight_NoReset(reset) == "upload"

AfterPreflight(reset) == IF reset THEN "reset" ELSE "upload"

Preflight ==
    /\ pc = "preflight"
    /\ \E k \in 0..3 :
        /\ k > 0 => fail_left > 0
        /\ fail_left' = IF k > 0 THEN fail_left - 1 ELSE fail_left
        /\ log' = log \o PreflightLog(k)
        /\ pc' = IF k > 0 THEN AfterPreflightFailure ELSE AfterPreflight(args.reset)
    /\ UNCHANGED <<local_files, girder_structure, comparison, cmp_prev, cmp_runs, tree,
                   skip_files, folders, items, nextId, stack, run, done, args, mstack, snap, mdone>>

(***************************************************************************)
(* delete_folder_contents (RESET_DATABASE)                                 *)
(***************************************************************************)
MTop == mstack[Len(mstack)]
MReplaceTop(fr) == [mstack EXCEPT ![Len(mstack)] = fr]
MPop == SubSeq(mstack, 1, Len(mstack) - 1)

Restrict(f, S) == IF S = {} THEN <<>> ELSE [x \in S |-> f[x]]

\* a folder and every folder beneath it
RECURSIVE Descendants(_, _)
Descendants(fs, f) == {f} \cup UNION {Descendants(fs, c) : c \in ChildFolders(fs, f)}

\* one call: the folder, and the items and child folders its loops have not
\* reached yet
DeleteFrame(folder_id) ==
    [folder |-> folder_id, items |-> ChildItems(items, folder_id),
     dirs |-> ChildFolders(folders, folder_id), listed |-> FALSE]

\* upload_to_girder calls delete_folder_contents on the destination folder;
\* the call is in no try block, so a listing that raises leaves
\* upload_to_girder and main
BeginReset ==
    /\ pc = "reset"
    /\ \E ok \in BOOLEAN :
        /\ ~ok => fail_left > 0
        /\ fail_left' = IF ok THEN fail_left ELSE fail_left - 1
        /\ mstack' = IF ok THEN <<DeleteFrame(RootId)>> ELSE <<>>
        /\ log' = Append(log, Call("listItem", RootId, NoName, ok, NoId, RootDir, NoName))
        /\ pc' = IF ok THEN "deleting" ELSE "crashed"
    /\ UNCHANGED <<local_files, girder_structure, comparison, cmp_prev, cmp_runs, tree,
                   skip_files, folders, items, nextId, stack, run, done, args, snap, mdone>>

\* one iteration of the loop over the items: the delete call in its try
\* block; the items come in the order the listing yields them, which is the
\* server's
DeleteItem ==
    /\ pc = "deleting"
    /\ mstack # <<>>
    /\ MTop.items # {}
    /\ \E i \in MTop.items, ok \in BOOLEAN :
        /\ ~ok => fail_left > 0
        /\ fail_left' = IF ok THEN fail_left ELSE fail_left - 1
        /\ items' = IF ok THEN Restrict(items, DOMAIN items \ {i}) ELSE items
        /\ log' = Append(log, Call("deleteItem", i, items[i].name, ok, NoId, RootDir, NoName))
        /\ mstack' = MReplaceTop([MTop EXCEPT !.items = @ \ {i}])
    /\ UNCHANGED <<local_files, girder_structure, comparison, cmp_prev, cmp_runs, tree,
                   skip_files, folders, nextId, stack, pc, run, done, args, snap, mdone>>

\* the pending child folders of a call once it recurses into f
DirsAfterDescend_DropsSiblings(fr, f) == {}

DirsAfterDescend(fr, f) == fr.dirs \ {f}

\* one iteration of the loop over the child folders, up to the recursive call
DeleteDescend ==
    /\ pc = "deleting"
    /\ mstack # <<>>
    /\ MTop.items = {}
    /\ MTop.dirs # {}
    /\ \E f \in MTop.dirs, ok \in BOOLEAN :
        /\ ~ok => fail_left > 0
        /\ fail_left' = IF ok THEN fail_left ELSE fail_left - 1
        /\ mstack' = IF ok
                     THEN Append(MReplaceTop([MTop EXCEPT !.dirs = DirsAfterDescend(MTop, f),
                                                          !.listed = TRUE]),
                                 DeleteFrame(f))
                     ELSE <<>>
        /\ log' = Append(log, Call("listItem", f, NoName, ok, NoId, RootDir, NoName))
        /\ pc' = IF ok THEN pc ELSE "crashed"
    /\ UNCHANGED <<local_files, girder_structure, comparison, cmp_prev, cmp_runs, tree,
                   skip_files, folders, items, nextId, stack, run, done,
                   args, snap, mdone>>

\* the listing of the child folders, issued once the loop over the items is
\* over, raises: the exception leaves every active call, upload_to_girder and
\* main
DeleteListFolderFails ==
    /\ pc = "deleting"
    /\ mstack # <<>>
    /\ MTop.items = {}
    /\ ~MTop.listed
    /\ fail_left > 0
    /\ fail_left' = fail_left - 1
    /\ log' = Append(log, Call("listFolder", MTop.folder, NoName, FALSE, NoId, RootDir, NoName))
    /\ mstack' = <<>>
    /\ pc' = "crashed"
    /\ UNCHANGED <<local_files, girder_structure, comparison, cmp_prev, cmp_runs, tree,
                   skip_files, folders, items, nextId, stack, run, done,
                   args, snap, mdone>>

\* the call returns; its caller deletes the folder (the server removes a
\* folder together with whatever it still holds); at the destination folder
\* the upload pass begins
DeleteReturn ==
    /\ pc = "deleting"
    /\ mstack # <<>>
    /\ MTop.items = {}
    /\ MTop.dirs = {}
    /\ mstack' = MPop
    /\ IF Len(mstack) = 1
       THEN /\ pc' = "upload"
            /\ UNCHANGED <<folders, items, log, fail_left>>
       ELSE /\ pc' = pc
            /\ \E ok \in BOOLEAN :
                LET f == MTop.folder
                    gone == Descendants(folders, f)
                IN  /\ ~ok => fail_left > 0
                    /\ fail_left' = IF ok THEN fail_left ELSE fail_left - 1
                    /\ log' = Append(log, Call("deleteFolder", f, folders[f].name, ok, NoId,
                                               RootDir, NoName))
                    /\ folders' = IF ok THEN Restrict(folders, DOMAIN folders \ gone)
                                  ELSE folders
                    /\ items' = IF ok
                                THEN Restrict(items, {i \in DOMAIN items :
                                                        items[i].folderId \notin gone})
                                ELSE items
    /\ UNCHANGED <<local_files, girder_structure, comparison, cmp_prev, cmp_runs, tree,
                   skip_files, nextId, stack, run, done, args, snap, mdone>>

\* "Upload failed": the exception of the upload pass ends the run
UploadFailed ==
    /\ pc = "upload_failed"
    /\ pc' = "failed"
    /\ UNCHANGED <<local_files, girder_structure, comparison, cmp_prev, cmp_runs, tree,
                   skip_files, folders, items, nextId, stack, log, fail_left, run, done,
                   args, mstack, snap, mdone>>

(***************************************************************************)
(* extract_bids_metadata                                                   *)
(***************************************************************************)
\* is_bids_item
is_bids_item(name) == EndsWith(name, JsonSuffix)

\* get_associated_id without the special case of dataset_description.json
get_associated_id_NoSpecialCase(its, parent_id, file_name) ==
    LET file_base == SplitextRoot(file_name)
        hits == {i \in ChildItems(its, parent_id) :
                    \/ its[i].name = file_base \o NiiGzSuffix
                    \/ its[i].name = file_base \o NiiSuffix
                    \/ StartsWith(its[i].name, file_base)}
    IN  IF hits = {} THEN {<<NoId, "none">>} ELSE {<<i, "item">> : i \in hits}

\* get_associated_id: the results the loop over listItem can return, one per
\* item that can be the first match in the store's enumeration order
get_associated_id(its, parent_id, file_name) ==
    IF file_name = DescJson THEN {<<parent_id, "folder">>}
    ELSE LET file_base == SplitextRoot(file_name)
             hits == {i \in ChildItems(its, parent_id) :
                         \/ its[i].name = file_base \o NiiGzSuffix
                         \/ its[i].name = file_base \o NiiSuffix
                         \/ StartsWith(its[i].name, file_base)}
         IN  IF hits = {} THEN {<<NoId, "none">>} ELSE {<<i, "item">> : i \in hits}

\* the bytes of a file that json.load rejects
NotJson == <<"not json">>

\* get_file_metadata: the parsed content of the downloaded bytes (the content
\* is identified by where the bytes came from); ok is FALSE when parsing raises
get_file_metadata(data) == [ok |-> data # NotJson, value |-> data]

\* one call: the folder, the items and child folders its loops have not
\* reached yet, and its two counters
MetaFrame(folder_id) ==
    [folder |-> folder_id, items |-> ChildItems(items, folder_id),
     dirs |-> ChildFolders(folders, folder_id),
     metadata_success_count |-> 0, metadata_fail_count |-> 0]

\* upload_to_girder calls extract_bids_metadata on the root folder; an
\* exception of the pass is logged as a warning and the run still succeeds
BeginMetadata ==
    /\ pc = "uploaded"
    /\ \E ok \in BOOLEAN :
        /\ ~ok => fail_left > 0
        /\ fail_left' = IF ok THEN fail_left ELSE fail_left - 1
        /\ mstack' = IF ok THEN <<MetaFrame(RootId)>> ELSE <<>>
        /\ log' = Append(log, Call("listItem", RootId, NoName, ok, NoId, RootDir, NoName))
        /\ pc' = IF ok THEN "metadata" ELSE "done"
    /\ UNCHANGED <<local_files, girder_structure, comparison, cmp_prev, cmp_runs, tree,
                   skip_files, folders, items, nextId, stack, run, done, args, snap, mdone>>

\* the active calls after a failure that the loop over the items catches
MetaAfterFailure_Aborts(rest) == <<>>

MetaAfterFailure(rest) == rest

\* one iteration of the loop over the items of the folder, taken in the
\* order the listing yields them
MetaItem ==
    /\ pc = "metadata"
    /\ mstack # <<>>
    /\ MTop.items # {}
    /\ \E i \in MTop.items :
        LET fr == MTop
            name == items[i].name
            left == [fr EXCEPT !.items = @ \ {i}]
            failed == MReplaceTop([left EXCEPT !.metadata_fail_count = @ + 1])
            rec(a, out) == [run |-> run, folder |-> fr.folder, item |-> i, name |-> name,
                            assoc |-> a, outcome |-> out]
            call(op, target, ok) == Call(op, target, name, ok, NoId, RootDir, NoName)
            \* the listing get_associated_id issues for any other sidecar
            listed == IF name = DescJson THEN <<>> ELSE <<call("listItem", fr.folder, TRUE)>>
        IN  IF ~is_bids_item(name)
            THEN /\ mstack' = MReplaceTop(left)
                 /\ UNCHANGED <<items, folders, log, fail_left, pc, mdone>>
            ELSE \/ \* the listing inside get_associated_id raises: the
                    \* exception leaves every active call
                    /\ name # DescJson
                    /\ fail_left > 0
                    /\ fail_left' = fail_left - 1
                    /\ log' = Append(log, call("listItem", fr.folder, FALSE))
                    /\ mstack' = <<>>
                    /\ pc' = "done"
                    /\ UNCHANGED <<items, folders, mdone>>
                 \/ \E a \in get_associated_id(items, fr.folder, name) :
                      IF a[2] = "none"
                      THEN \* no associated resource
                           /\ mstack' = MetaAfterFailure(failed)
                           /\ pc' = IF mstack' = <<>> THEN "done" ELSE pc
                           /\ mdone' = mdone \cup {rec(a, "miss")}
                           /\ log' = log \o listed
                           /\ UNCHANGED <<items, folders, fail_left>>
                      ELSE LET has_file == items[i].files # <<>>
                               parses == /\ has_file
                                         /\ get_file_metadata(Head(items[i].files).data).ok
                               fetched(ok) == listed \o <<call("listFile", i, TRUE),
                                                          call("downloadFile", i, ok)>>
                           IN  \/ \* the listing of the item's files raises
                                  /\ fail_left > 0
                                  /\ fail_left' = fail_left - 1
                                  /\ log' = log \o listed \o <<call("listFile", i, FALSE)>>
                                  /\ mstack' = MetaAfterFailure(failed)
                                  /\ pc' = IF mstack' = <<>> THEN "done" ELSE pc
                                  /\ mdone' = mdone \cup {rec(a, "unreadable")}
                                  /\ UNCHANGED <<items, folders>>
                               \/ \* the item holds no file: next() raises
                                  /\ ~has_file
                                  /\ log' = log \o listed \o <<call("listFile", i, TRUE)>>
                                  /\ mstack' = MetaAfterFailure(failed)
                                  /\ pc' = IF mstack' = <<>> THEN "done" ELSE pc
                                  /\ mdone' = mdone \cup {rec(a, "unreadable")}
                                  /\ UNCHANGED <<items, folders, fail_left>>
                               \/ \* the download raises, or the bytes are
                                  \* not JSON and the parsing raises
                                  /\ has_file
                                  /\ \E ok \in BOOLEAN :
                                      /\ ok => ~parses
                                      /\ ~ok => fail_left > 0
                                      /\ fail_left' = IF ok THEN fail_left ELSE fail_left - 1
                                      /\ log' = log \o fetched(ok)
                                  /\ mstack' = MetaAfterFailure(failed)
                                  /\ pc' = IF mstack' = <<>> THEN "done" ELSE pc
                                  /\ mdone' = mdone \cup {rec(a, "unreadable")}
                                  /\ UNCHANGED <<items, folders>>
                               \/ \* the attachment raises
                                  /\ parses
                                  /\ fail_left > 0
                                  /\ fail_left' = fail_left - 1
                                  /\ log' = log \o fetched(TRUE)
                                            \o <<call(IF a[2] = "item" THEN "addMetadataToItem"
                                                      ELSE "addMetadataToFolder", a[1], FALSE)>>
                                  /\ mstack' = MetaAfterFailure(failed)
                                  /\ pc' = IF mstack' = <<>> THEN "done" ELSE pc
                                  /\ mdone' = mdone \cup {rec(a, "attach_failed")}
                                  /\ UNCHANGED <<items, folders>>
                               \/ \* the metadata is attached
                                  /\ parses
                                  /\ LET metadata == get_file_metadata(Head(items[i].files).data).value
                                     IN  IF a[2] = "item"
                                         THEN /\ items' = [items EXCEPT ![a[1]].meta = @ \cup {metadata}]
                                              /\ log' = log \o fetched(TRUE)
                                                        \o <<call("addMetadataToItem", a[1], TRUE)>>
                                              /\ UNCHANGED folders
                                         ELSE /\ folders' = [folders EXCEPT ![a[1]].meta = @ \cup {metadata}]
                                              /\ log' = log \o fetched(TRUE)
                                                        \o <<call("addMetadataToFolder", a[1], TRUE)>>
                                              /\ UNCHANGED items
                                  /\ mstack' = MReplaceTop([left EXCEPT !.metadata_success_count = @ + 1])
                                  /\ mdone' = mdone \cup {rec(a, "attached")}
                                  /\ UNCHANGED <<fail_left, pc>>
    /\ UNCHANGED <<local_files, girder_structure, comparison, cmp_prev, cmp_runs, tree,
                   skip_files, nextId, stack, run, done, args, snap>>

\* the recursive call for one child folder; its listing of the items may raise
MetaDescend ==
    /\ pc = "metadata"
    /\ mstack # <<>>
    /\ MTop.items = {}
    /\ MTop.dirs # {}
    /\ \E f \in MTop.dirs, ok \in BOOLEAN :
        /\ ~ok => fail_left > 0
        /\ fail_left' = IF ok THEN fail_left ELSE fail_left - 1
        /\ mstack' = IF ok
                     THEN Append(MReplaceTop([MTop EXCEPT !.dirs = DirsAfterDescend(MTop, f)]),
                                 MetaFrame(f))
                     ELSE <<>>
        /\ log' = Append(log, Call("listItem", f, NoName, ok, NoId, RootDir, NoName))
        /\ pc' = IF ok THEN pc ELSE "done"
    /\ UNCHANGED <<local_files, girder_structure, comparison, cmp_prev, cmp_runs, tree,
                   skip_files, folders, items, nextId, stack, run, done,
                   args, snap, mdone>>

\* the listing of the child folders raises: the exception leaves every active
\* call and upload_to_girder logs a warning
MetaListFolderFails ==
    /\ pc = "metadata"
    /\ mstack # <<>>
    /\ MTop.items = {}
    /\ MTop.dirs = ChildFolders(folders, MTop.folder)
    /\ fail_left > 0
    /\ fail_left' = fail_left - 1
    /\ log' = Append(log, Call("listFolder", MTop.folder, NoName, FALSE, NoId, RootDir, NoName))
    /\ mstack' = <<>>
    /\ pc' = "done"
    /\ UNCHANGED <<local_files, girder_structure, comparison, cmp_prev, cmp_runs, tree,
                   skip_files, folders, items, nextId, stack, run, done,
                   args, snap, mdone>>

\* extract_bids_metadata returns; at the root, upload_to_girder returns True
MetaReturn ==
    /\ pc = "metadata"
    /\ mstack # <<>>
    /\ MTop.items = {}
    /\ MTop.dirs = {}
    /\ mstack' = MPop
    /\ pc' = IF Len(mstack) = 1 THEN "done" ELSE pc
    /\ UNCHANGED <<local_files, girder_structure, comparison, cmp_prev, cmp_runs, tree,
                   skip_files, folders, items, nextId, stack, log, fail_left, run, done,
                   args, snap, mdone>>

\* the program is started again on the unchanged local tree, after a run in
\* which no remote call failed
NextRun ==
    /\ pc = "done"
    /\ run < MaxRuns
    /\ fail_left = MaxFailures
    /\ run' = run + 1
    /\ snap' = [folders |-> folders, items |-> items, cmp_runs |-> cmp_runs, args |-> args]
    /\ pc' = "main"
    /\ UNCHANGED <<local_files, girder_structure, comparison, cmp_prev, cmp_runs, tree,
                   skip_files, folders, items, nextId, stack, log, fail_left, done, args,
                   mstack, mdone>>

(***************************************************************************)
(* SpecSync: whole runs of the program (main with or without               *)
(* --skip-existing, upload pass, metadata pass) against a destination      *)
(* folder that is empty before the first run.                              *)
(***************************************************************************)
\* the dataset of the end-to-end scenario, with a payload of `nii` bytes
\* a directory below anat
SesDir == <<AnatDir, <<"ses-01">> >>

E2ETree(nii) ==
    (RootDir :> [files |-> (DescJson :> 20)])
    @@ (<<AnatDir>> :> [files |-> (T1wNiiGz :> nii) @@ (T1wJson :> 50)])

\* the file slots of the small trees of SpecSync
SyncSlots ==
    {<<RootDir, DescJson>>, <<<<AnatDir>>, T1wNiiGz>>, <<<<AnatDir>>, T1wJson>>}

SyncTrees ==
    {E2ETree(500), E2ETree(1000000)}
    \cup {TreeOf(dirs, slots, 100) :
            dirs \in {{RootDir, <<AnatDir>>}},
            slots \in BoundedSubsets(SyncSlots, MaxTreeFiles - 2)}
    \cup {TreeOf({RootDir, <<AnatDir>>, SesDir}, {<<<<AnatDir>>, T1wJson>>, <<SesDir, T1wJson>>}, 100)}

InitSync ==
    /\ tree \in SyncTrees
    /\ skip_files = {}
    /\ folders = EmptyStore
    /\ items = <<>>
    /\ nextId = RootId + 1
    /\ stack = <<>>
    /\ log = <<>>
    /\ fail_left = MaxFailures
    /\ pc = "main"
    /\ run = 1
    /\ done = {}
    /\ args = [skip_existing |-> FALSE, reset |-> FALSE, compare |-> FALSE]
    /\ mstack = <<>>
    /\ snap = [folders |-> <<>>, items |-> <<>>, cmp_runs |-> 0, args |-> args]
    /\ mdone = {}
    /\ local_files = <<>>
    /\ girder_structure = <<>>
    /\ comparison = EmptyComparison
    /\ cmp_prev = EmptyComparison
    /\ cmp_runs = 0

NextSync ==
    \/ ValidationFails
    \/ CompareOnly
    \/ CheckExisting
    \/ SkipNothing
    \/ Preflight
    \/ BeginReset
    \/ DeleteItem
    \/ DeleteDescend
    \/ DeleteListFolderFails
    \/ DeleteReturn
    \/ BeginUpload
    \/ UploadGroup
    \/ EnterSubDir
    \/ ReturnFromDir
    \/ UploadFailed
    \/ BeginMetadata
    \/ MetaItem
    \/ MetaDescend
    \/ MetaListFolderFails
    \/ MetaReturn
    \/ NextRun

SpecSync == InitSync /\ [][NextSync]_vars

(***************************************************************************)
(* SpecRemote: one walk of a populated destination folder: the remote scan *)
(* of --skip-existing, the deletion of RESET_DATABASE or the metadata      *)
(* pass, on bounded stores of any content.                                 *)
(***************************************************************************)
DescNiiGz == <<"dataset_description", ".", "nii", ".", "gz">>
T1wExtra == T1wStem \o <<"_extra">> \o NiiGzSuffix
BoldJson == <<"sub-01", "_bold">> \o JsonSuffix

\* a stored file; Unsized is one whose record has no size
Stored(name, size) == [name |-> name, size |-> size, data |-> <<"remote", name>>]
Unsized(name) == [name |-> name, data |-> <<"remote", name>>]

\* the items a generated store may hold in a folder: <<name, files>>
RemoteItemPool(f) ==
    IF f = RootId
    THEN <<  <<DescJson, <<Stored(DescJson, 20)>> >>,
             <<DescNiiGz, <<>> >>,
             <<T1wJson, <<Stored(T1wJson, 50)>> >>,
             <<T1wNiiGz, <<Stored(T1wNiiGz, 500)>> >>  >>
    ELSE IF f = 2
    THEN <<  <<T1wJson, <<Stored(T1wJson, 50)>> >>,
             <<T1wNiiGz, <<Stored(T1wJson, 50), Stored(T1wNiiGz, 500), Unsized(T1wTsv)>> >>,
             <<T1wNii, <<Stored(T1wNii, 30)>> >>,
             <<T1wExtra, <<Unsized(T1wExtra)>> >>,
             <<BoldJson, <<[name |-> BoldJson, size |-> 9, data |-> NotJson]>> >>  >>
    ELSE <<  <<T1wJson, <<>> >>,
             <<T1wNiiGz, <<Stored(T1wNiiGz, 500)>> >>  >>

\* the folder sets of the generated stores; folder 4 is not beneath the
\* destination folder
RemoteFolderShapes ==
    { EmptyStore,
      EmptyStore @@ (2 :> NewFolder(RootId, AnatDir)),
      EmptyStore @@ (2 :> NewFolder(RootId, AnatDir)) @@ (3 :> NewFolder(RootId, FuncDir)),
      EmptyStore @@ (2 :> NewFolder(RootId, AnatDir)) @@ (3 :> NewFolder(2, <<"ses-01">>)),
      EmptyStore @@ (2 :> NewFolder(RootId, AnatDir)) @@ (4 :> NewFolder(NoId, <<"other">>)) }

RemoteSlots(fs) == UNION {{<<f, k>> : k \in 1..Len(RemoteItemPool(f))} : f \in DOMAIN fs}
SlotId(sl) == 10 * sl[1] + sl[2]

RemoteItemsOf(slots) ==
    Restrict([id \in {SlotId(sl) : sl \in slots} |->
                LET sl == CHOOSE t \in slots : SlotId(t) = id
                    it == RemoteItemPool(sl[1])[sl[2]]
                IN  [name |-> it[1], folderId |-> sl[1], files |-> it[2], meta |-> {}]],
             {SlotId(sl) : sl \in slots})

\* a generated store holding at most n items, at the start of one walk
RemoteStart(n) ==
    /\ folders \in RemoteFolderShapes
    /\ \E slots \in BoundedSubsets(RemoteSlots(folders), n) :
          items = RemoteItemsOf(slots)
    /\ pc \in {"main", "reset", "uploaded"}
    /\ tree = E2ETree(500)
    /\ skip_files = {}
    /\ nextId = 50
    /\ stack = <<>>
    /\ log = <<>>
    /\ fail_left = MaxFailures
    /\ run = 1
    /\ done = {}
    /\ args = [skip_existing |-> FALSE, reset |-> pc = "reset", compare |-> FALSE]
    /\ mstack = <<>>
    /\ mdone = {}
    /\ local_files = <<>>
    /\ girder_structure = <<>>
    /\ comparison = EmptyComparison
    /\ cmp_prev = EmptyComparison
    /\ cmp_runs = 0
    /\ snap = [folders |-> folders, items |-> items, cmp_runs |-> 0, args |-> args]

InitRemote == RemoteStart(MaxRemoteItems)

NextRemote ==
    \/ CheckExisting
    \/ BeginReset
    \/ DeleteItem
    \/ DeleteDescend
    \/ DeleteListFolderFails
    \/ DeleteReturn
    \/ BeginMetadata
    \/ MetaItem
    \/ MetaDescend
    \/ MetaListFolderFails
    \/ MetaReturn

SpecRemote == InitRemote /\ [][NextRemote]_vars

(***************************************************************************)
(* Claims about upload_directory_recursively, checked under SpecUpload.    *)
(***************************************************************************)
\* the calls issued for the file group `b` of directory `d` in run `r`
GroupCalls(r, d, b) ==
    LET Mine(e) == e.run = r /\ e.dir = d /\ e.base = b /\ b # NoName
    IN  SelectSeq(log, Mine)

IsPair(g) == g.nifti # NoName /\ g.json # NoName
AllOk(calls) == \A i \in 1..Len(calls) : calls[i].ok

\* C6: a group with a payload and a sidecar, neither in the skip-set and no
\* call failing, issues exactly: one item creation under the current parent,
\* named after the payload; the upload of the sidecar into that item; the
\* upload of the payload into that item.
C6_PairCalls ==
    \A r \in done :
        LET g == r.group
            calls == GroupCalls(r.run, r.dir, g.base)
        IN  (/\ IsPair(g)
             /\ RelPath(r.dir, g.nifti) \notin skip_files
             /\ RelPath(r.dir, g.json) \notin skip_files
             /\ AllOk(calls))
            => /\ Len(calls) = 3
               /\ calls[1].op = "createItem"
               /\ calls[1].target = r.parent
               /\ calls[1].name = g.nifti
               /\ calls[1].ret # NoId
               /\ calls[2].op = "uploadFileToItem"
               /\ calls[2].target = calls[1].ret
               /\ calls[2].name = g.json
               /\ calls[3].op = "uploadFileToItem"
               /\ calls[3].target = calls[1].ret
               /\ calls[3].name = g.nifti

C6_Witness ==
    \E r \in done :
        /\ IsPair(r.group)
        /\ r.dir # RootDir
        /\ RelPath(r.dir, r.group.nifti) \notin skip_files
        /\ RelPath(r.dir, r.group.json) \notin skip_files
        /\ Len(GroupCalls(r.run, r.dir, r.group.base)) = 3
        /\ AllOk(GroupCalls(r.run, r.dir, r.group.base))

\* C7: a group with a payload and a sidecar of which at least one is in the
\* skip-set issues no remote call.
C7_PartialSkip ==
    \A r \in done :
        (/\ IsPair(r.group)
         /\ \/ RelPath(r.dir, r.group.nifti) \in skip_files
            \/ RelPath(r.dir, r.group.json) \in skip_files)
        => GroupCalls(r.run, r.dir, r.group.base) = <<>>

\* only the payload is in the skip-set, and the run went on to issue calls
\* for something else
C7_Witness ==
    /\ \E r \in done :
        /\ IsPair(r.group)
        /\ RelPath(r.dir, r.group.nifti) \in skip_files
        /\ RelPath(r.dir, r.group.json) \notin skip_files
    /\ \E i \in 1..Len(log) : log[i].op = "upload" /\ log[i].ok

\* C8: when the creation of the folder for directory d (named n, under p)
\* fails because p already has a folder named n and the lookup returns, p has
\* exactly one folder named n, the subtree of d is uploaded into it (d is
\* being walked with that folder as parent, or all its groups were handled
\* with it), and every later item creation, upload and folder creation for d
\* targets it.
C8_FolderReuse ==
    \A i \in 1..(Len(log) - 1) :
        LET p == log[i].target
            n == log[i].name
            d == log[i].dir
            M == {f \in ChildFolders(folders, p) : folders[f].name = n}
        IN  (/\ log[i].op = "createFolder"
             /\ ~log[i].ok
             /\ log[i + 1].op = "listFolder"
             /\ log[i + 1].ok
             /\ M # {})
            => /\ Cardinality(M) = 1
               /\ \/ \E k \in 1..Len(stack) : stack[k].dir = d /\ stack[k].parent \in M
                  \/ \E gs \in Groupings(d) : \A g \in gs :
                        \E r \in done : r.dir = d /\ r.group = g /\ r.parent \in M
               /\ \A r \in done : r.dir = d => r.parent \in M
               /\ \A j \in (i + 2)..Len(log) :
                    /\ (log[j].dir = d /\ log[j].op \in {"createItem", "upload"})
                          => log[j].target \in M
                    /\ (log[j].op = "createFolder" /\ Len(log[j].dir) = Len(d) + 1
                        /\ SubSeq(log[j].dir, 1, Len(d)) = d)
                          => log[j].target \in M

\* the second creation of "anat" was refused, the existing folder was found,
\* and an item and a sub-folder were then created in it
C8_Witness ==
    \E i \in 1..(Len(log) - 1) :
        /\ log[i].op = "createFolder"
        /\ ~log[i].ok
        /\ log[i + 1].op = "listFolder"
        /\ log[i + 1].ok
        /\ \E f \in ChildFolders(folders, log[i].target) :
            /\ folders[f].name = log[i].name
            /\ \E j \in (i + 2)..Len(log) :
                log[j].op = "createItem" /\ log[j].ok /\ log[j].target = f
            /\ \E j \in (i + 2)..Len(log) :
                log[j].op = "createFolder" /\ log[j].ok /\ log[j].target = f

(***************************************************************************)
(* Claims about whole runs, checked under SpecSync.                        *)
(***************************************************************************)
NoFailureSoFar == fail_left = MaxFailures

\* the folders, items and files of a store, without the metadata
StoreShape(fs, its) ==
    [folders |-> [f \in DOMAIN fs |-> [name |-> fs[f].name, parentId |-> fs[f].parentId]],
     items |-> [i \in DOMAIN its |->
                  [name |-> its[i].name, folderId |-> its[i].folderId, files |-> its[i].files]]]

\* the current run has compared the local tree with the remote store
ComparedThisRun == cmp_runs > snap.cmp_runs

\* the current run took the --skip-existing path of main and computed its
\* skip-set
SkipSetComputed == args.skip_existing /\ ~args.compare /\ ComparedThisRun

\* the second run, started with --skip-existing and without --reset, after a
\* first run that was not a --compare run
InSecondRunWithSkip == run = 2 /\ SkipSetComputed /\ ~args.reset /\ ~snap.args.compare

\* C9: after a failure-free first run into an empty destination, a second
\* run on the same tree with --skip-existing adds no remote item, folder or
\* file: the store keeps the shape it had when the first run ended.
C9_Idempotent ==
    (InSecondRunWithSkip /\ NoFailureSoFar)
        => StoreShape(folders, items) = StoreShape(snap.folders, snap.items)

\* Supporting lemma: the second run adds nothing when the tree is the
\* end-to-end dataset with a payload of 1,000,000 bytes (the sidecar is below
\* 1% of the item's aggregate size, so the payload path is classified existing).
Sync_IdempotentLargePayload ==
    (InSecondRunWithSkip /\ NoFailureSoFar /\ tree = E2ETree(1000000))
        => StoreShape(folders, items) = StoreShape(snap.folders, snap.items)

Sync_IdempotentLargePayload_Witness ==
    InSecondRunWithSkip /\ NoFailureSoFar /\ tree = E2ETree(1000000) /\ pc = "done"

E2EPaths == {<<DescJson>>, <<AnatDir, T1wNiiGz>>, <<AnatDir, T1wJson>>}
E2ERun == tree = E2ETree(500) /\ run = 1 /\ NoFailureSoFar /\ ~args.compare
LogIndices(op) == {i \in 1..Len(log) : log[i].op = op}
AnatFolders == {f \in ChildFolders(folders, RootId) : folders[f].name = AnatDir}

\* the part of the end-to-end scenario up to the metadata of the folder:
\* new is the three paths, one item (named after the payload, holding the
\* sidecar then the payload) is created in the anat folder, the description
\* is uploaded directly to the root folder and its content is attached to the
\* root folder
E2E_UpToFolderMetadata ==
    /\ (E2ERun /\ SkipSetComputed) => comparison.new = E2EPaths
    /\ (E2ERun /\ pc = "done") =>
        /\ Cardinality(AnatFolders) = 1
        /\ Cardinality(LogIndices("createItem")) = 1
        /\ \A i \in LogIndices("createItem") :
            /\ log[i].target \in AnatFolders
            /\ log[i].name = T1wNiiGz
            /\ [k \in 1..2 |-> items[log[i].ret].files[k].name] = <<T1wJson, T1wNiiGz>>
        /\ Cardinality(LogIndices("upload")) = 1
        /\ \A i \in LogIndices("upload") : log[i].target = RootId /\ log[i].name = DescJson
        /\ folders[RootId].meta = {<<DescJson>>}

\* C10: the end-to-end scenario: new is the three paths; one item is created
\* for the T1w pair in the anat folder; dataset_description.json is uploaded
\* directly to the root folder; afterwards the root folder carries the content
\* of dataset_description.json and the T1w item carries the content of
\* sub-01_T1w.json.
C10_EndToEnd ==
    /\ E2E_UpToFolderMetadata
    /\ (E2ERun /\ pc = "done") =>
        \A i \in LogIndices("createItem") : items[log[i].ret].meta = {<<AnatDir, T1wJson>>}

E2E_Witness == E2ERun /\ args.skip_existing /\ pc = "done"

\* the members of a file group
Members(g) == {g.nifti, g.json, g.other} \ {NoName}
UploadOps == {"upload", "uploadFileToItem"}

\* C21: a file group with a single member issues no remote call when the
\* member's root-relative path is in the skip-set, and otherwise exactly one
\* call: the direct upload of the member to the current parent container (no
\* item creation). No upload call of any kind carries a path of the skip-set.
C21_SingleMember ==
    /\ \A r \in done :
          LET g == r.group
              calls == GroupCalls(r.run, r.dir, g.base)
          IN  Cardinality(Members(g)) = 1 =>
                \A n \in Members(g) :
                    IF RelPath(r.dir, n) \in skip_files
                    THEN calls = <<>>
                    ELSE /\ Len(calls) = 1
                         /\ calls[1].op = "upload"
                         /\ calls[1].target = r.parent
                         /\ calls[1].name = n
    /\ \A k \in 1..Len(log) :
          log[k].op \in UploadOps => RelPath(log[k].dir, log[k].name) \notin skip_files

\* one single-member group was skipped and another one, a sidecar without
\* payload in a sub-directory, was uploaded directly
C21_Witness ==
    \E r1, r2 \in done :
        /\ r2.dir # RootDir
        /\ Cardinality(Members(r1.group)) = 1
        /\ \A n \in Members(r1.group) : RelPath(r1.dir, n) \in skip_files
        /\ Members(r2.group) = {r2.group.json}
        /\ RelPath(r2.dir, r2.group.json) \notin skip_files
        /\ Len(GroupCalls(r2.run, r2.dir, r2.group.base)) = 1
        /\ AllOk(GroupCalls(r2.run, r2.dir, r2.group.base))

\* the upload calls that carried the file of root-relative path p
UploadsOf(p) ==
    {k \in 1..Len(log) : log[k].op \in UploadOps /\ RelPath(log[k].dir, log[k].name) = p}

\* C22: after an upload pass in which no remote call failed and whose
\* skip-set is empty, every file of the local tree has been uploaded exactly
\* once, files sharing a base name with another file of their directory
\* included.
C22_EveryFileOnce ==
    (pc = "uploaded" /\ skip_files = {} /\ AllOk(log)) =>
        \A p \in TreePaths(tree) : Cardinality(UploadsOf(p)) = 1

\* no file is uploaded twice, and a file whose base name is shared by no other
\* file of its directory is uploaded once
C22_UnsharedOnce ==
    (pc = "uploaded" /\ skip_files = {} /\ AllOk(log)) =>
        \A d \in DOMAIN tree : \A n \in FilesOf(d) :
            /\ Cardinality(UploadsOf(RelPath(d, n))) <= 1
            /\ (\A m \in FilesOf(d) : NameBase(m) = NameBase(n) => m = n)
                  => Cardinality(UploadsOf(RelPath(d, n))) = 1

(***************************************************************************)
(* Claims about the failures of the upload pass, checked under SpecUpload  *)
(* and SpecSync.                                                           *)
(***************************************************************************)
GroupOps == {"createItem", "uploadFileToItem", "upload"}
FailedGroupCalls == {k \in 1..Len(log) : log[k].op \in GroupOps /\ ~log[k].ok}

\* the active call for directory d of run r, if any
ActiveFrames(r, d) == {k \in 1..Len(stack) : r = run /\ stack[k].dir = d}
PendingGroups(r, d) == UNION {stack[k].groups : k \in ActiveFrames(r, d)}
PendingDirs(r, d) == UNION {stack[k].dirs : k \in ActiveFrames(r, d)}
GroupsDone(r, d) == {x.group : x \in {y \in done : y.run = r /\ y.dir = d}}

\* the loop over the sub-directories of d reached the directory c in run r
Attempted(r, c) ==
    \E k \in 1..Len(log) : log[k].op = "createFolder" /\ log[k].run = r /\ log[k].dir = c

\* the call for d was left by the exception of a folder lookup
LookupRaised(r, d) ==
    \E k \in 1..Len(log) :
        /\ log[k].op = "listFolder" /\ ~log[k].ok /\ log[k].run = r
        /\ Len(log[k].dir) = Len(d) + 1
        /\ SubSeq(log[k].dir, 1, Len(d)) = d

\* S holds one group for every base name of the files of directory d
OneGroupPerBase(S, d) ==
    /\ \A g \in S : g \in GroupChoices(d, g.base)
    /\ {g.base : g \in S} = {NameBase(n) : n \in FilesOf(d)}
    /\ \A g, h \in S : g.base = h.base => g = h

\* C13: a remote call failing for one file group does not end the call of
\* the uploader for its directory: every group of the directory has been
\* handled or is still to be handled by the loop, and every sub-directory of
\* the directory has been reached or is still to be reached (unless a later
\* folder lookup raised in that directory).
C13_GroupFailureContained ==
    \A k \in FailedGroupCalls :
        LET r == log[k].run
            d == log[k].dir
        IN  /\ OneGroupPerBase(GroupsDone(r, d) \cup PendingGroups(r, d), d)
            /\ \A n \in SubDirsOf(d) :
                  \/ n \in PendingDirs(r, d)
                  \/ Attempted(r, Append(d, n))
                  \/ LookupRaised(r, d)

\* a group of the root directory failed, another group of the root directory
\* was uploaded after it, its sub-directory was entered, and the pass is over
C13_Witness ==
    /\ pc = "uploaded"
    /\ \E k \in FailedGroupCalls :
          /\ log[k].dir = RootDir
          /\ \E j \in (k + 1)..Len(log) :
                /\ log[j].op = "upload" /\ log[j].ok
                /\ log[j].dir = RootDir /\ log[j].base # log[k].base
          /\ \E j \in (k + 1)..Len(log) :
                log[j].op = "createFolder" /\ log[j].ok /\ log[j].dir = <<AnatDir>>

IsPrefix(p, q) == Len(p) <= Len(q) /\ SubSeq(q, 1, Len(p)) = p
Parent(d) == SubSeq(d, 1, Len(d) - 1)

\* the failed folder creations after which the sub-directory is dropped: the
\* creation failed for another reason than "already exists" (no lookup
\* follows), or the lookup that follows finds no folder of that name
FollowedByLookup(k) ==
    /\ k < Len(log)
    /\ log[k + 1].op = "listFolder"
    /\ log[k + 1].dir = log[k].dir
DroppedCreations ==
    {k \in 1..Len(log) :
        /\ log[k].op = "createFolder"
        /\ ~log[k].ok
        /\ \/ ~FollowedByLookup(k)
           \/ /\ log[k + 1].ok
              /\ MatchingFolder(folders, log[k].target, log[k].name) = NoId}

\* C14: when the folder of a sub-directory can be neither created nor found,
\* no remote call is issued and no file group is handled for anything
\* beneath that sub-directory, and the other sub-directories of the same
\* directory are still reached.
C14_SubtreeDropped ==
    \A k \in DroppedCreations :
        LET r == log[k].run
            c == log[k].dir
        IN  /\ \A j \in 1..Len(log) :
                  (log[j].run = r /\ IsPrefix(c, log[j].dir))
                      => (j = k \/ (j = k + 1 /\ FollowedByLookup(k)))
            /\ \A x \in done : x.run = r => ~IsPrefix(c, x.dir)
            /\ \A n \in SubDirsOf(Parent(c)) :
                  \/ n \in PendingDirs(r, Parent(c))
                  \/ Attempted(r, Append(Parent(c), n))
                  \/ LookupRaised(r, Parent(c))

\* the folder for anat, which holds files, could not be created nor found, and
\* the folder for func was created after that
C14_Witness ==
    /\ pc = "uploaded"
    /\ <<AnatDir>> \in DOMAIN tree
    /\ DOMAIN tree[<<AnatDir>>].files # {}
    /\ \E k \in DroppedCreations :
          /\ log[k].dir = <<AnatDir>>
          /\ FollowedByLookup(k)
          /\ \E j \in (k + 2)..Len(log) :
                log[j].op = "createFolder" /\ log[j].ok /\ log[j].dir = <<FuncDir>>

\* the failed calls of the nodes of the upload pass: item creation, upload,
\* folder creation, and the folder lookup after "already exists"
FailedNodeCalls ==
    {k \in 1..Len(log) :
        /\ ~log[k].ok
        /\ \/ log[k].op \in GroupOps
           \/ log[k].op = "createFolder"
           \/ log[k].op = "listFolder" /\ log[k].dir # RootDir}

\* the directory whose loop issued call k
LoopDir(k) == IF log[k].op \in GroupOps THEN log[k].dir ELSE Parent(log[k].dir)

\* C15: once the connectivity check, the authentication and getFolder have
\* succeeded, no failure of a node of the upload pass makes upload_to_girder
\* return failure, and after such a failure every sub-directory of the
\* directory being processed has been reached or is still to be reached.
C15_NodeFailuresNeverFatal ==
    /\ pc # "upload_failed"
    /\ \A k \in FailedNodeCalls :
          \A n \in SubDirsOf(LoopDir(k)) :
              \/ n \in PendingDirs(log[k].run, LoopDir(k))
              \/ Attempted(log[k].run, Append(LoopDir(k), n))

MutatingOps ==
    {"deleteItem", "deleteFolder", "createFolder", "createItem", "uploadFileToItem", "upload",
     "addMetadataToItem", "addMetadataToFolder"}
FailedPreflightCalls ==
    {k \in 1..Len(log) :
        ~log[k].ok /\ \E j \in 1..Len(PreflightOps) : log[k].op = PreflightOps[j]}

\* the destination as it was when the current run of SpecSync began
RunStart == IF run = 1 THEN [folders |-> EmptyStore, items |-> <<>>]
            ELSE [folders |-> snap.folders, items |-> snap.items]

\* C16: when the connectivity check, the authentication or getFolder fails,
\* upload_to_girder returns failure and the run issues no delete, creation,
\* upload or metadata call, with or without --reset; the destination is as
\* it was when the run began.
C16_PreflightFailureMutatesNothing ==
    \A k \in FailedPreflightCalls :
        /\ \A j \in 1..Len(log) : log[j].run = log[k].run => log[j].op \notin MutatingOps
        /\ log[k].run = run =>
              /\ pc = "failed"
              /\ k = Len(log)
              /\ [folders |-> folders, items |-> items] = RunStart

\* getFolder failed in a second run started with --reset against the
\* destination the first run populated
C16_Witness ==
    /\ run = 2
    /\ args.reset
    /\ ~args.compare
    /\ pc = "failed"
    /\ DOMAIN items # {}
    /\ log[Len(log)].op = "getFolder"
    /\ ~log[Len(log)].ok

\* the calls the current run has issued
CallsOfRun == {k \in 1..Len(log) : log[k].run = run}

\* C18: with --skip-existing the skip-set is exactly the set of paths that
\* compare_structures classified as existing (no new and no modified path);
\* it is computed before the run issues its first mutating call; every
\* active call of the uploader holds that same set; and no step after its
\* computation changes it.
C18_SkipSetFrame ==
    /\ [](/\ SkipSetComputed =>
                /\ skip_files = PathsOf(comparison.existing)
                /\ skip_files \cap (comparison.new \cup PathsOf(comparison.modified)) = {}
          /\ pc = "preflight" => \A k \in CallsOfRun : log[k].op \notin MutatingOps
          /\ \A k \in 1..Len(stack) : stack[k].skip = skip_files)
    /\ [][pc # "main" => skip_files' = skip_files]_vars

\* a second run with --skip-existing is inside the recursive call for a
\* sub-directory, with a non-empty skip-set and a path that is not skipped
C18_Witness ==
    /\ run = 2
    /\ args.skip_existing
    /\ skip_files # {}
    /\ comparison.new # {}
    /\ Len(stack) = 2
    /\ \E k \in CallsOfRun : log[k].op \in MutatingOps

(***************************************************************************)
(* Claims about the walks of the remote store, checked under SpecRemote.   *)
(***************************************************************************)
\* the content a stored dataset_description.json is parsed to
DescContent == <<"remote", DescJson>>

\* C11: dataset_description.json is always associated with the folder being
\* walked, never with an item, whatever other items the folder holds: its
\* association is <<walked folder, "folder">>, every attachment call for it
\* is addMetadataToFolder, and no item ever carries its content.
C11_DescriptionToFolder ==
    /\ \A r \in mdone : r.name = DescJson => r.assoc = <<r.folder, "folder">>
    /\ \A k \in 1..Len(log) :
          (log[k].name = DescJson /\ log[k].op \in {"addMetadataToItem", "addMetadataToFolder"})
              => /\ log[k].op = "addMetadataToFolder"
                 /\ log[k].target \in DOMAIN folders
    /\ \A i \in DOMAIN items : DescContent \notin items[i].meta

\* the description of the destination folder was attached to that folder although
\* the folder holds other items, a prefix match of the description among them
C11_Witness ==
    /\ \E r \in mdone : r.name = DescJson /\ r.outcome = "attached" /\ r.folder = RootId
    /\ \E i \in ChildItems(items, RootId) : items[i].name = DescNiiGz
    /\ \E i \in ChildItems(items, RootId) : items[i].name = T1wJson
    /\ DescContent \in folders[RootId].meta
    /\ pc = "done"

\* the names of the payload a sidecar belongs to: b.nii.gz and b.nii
ExactNames(sidecar) ==
    {SplitextRoot(sidecar) \o NiiGzSuffix, SplitextRoot(sidecar) \o NiiSuffix}

\* C12: for a sidecar b.json other than dataset_description.json, when the
\* walked folder holds an item named exactly b.nii.gz or b.nii the sidecar is
\* associated with such an item, in every enumeration order of the folder's
\* items; an item whose name only starts with b is chosen only when the
\* folder holds no exact match.
C12_ExactPreferred ==
    \A r \in mdone :
        (/\ r.name # DescJson
         /\ \E i \in ChildItems(items, r.folder) : items[i].name \in ExactNames(r.name))
            => /\ r.assoc[2] = "item"
               /\ items[r.assoc[1]].name \in ExactNames(r.name)

\* the calls of the metadata pass whose failure leaves every active call of
\* extract_bids_metadata (they are outside its try blocks)
FailedListings ==
    {k \in 1..Len(log) : ~log[k].ok /\ log[k].op \in {"listItem", "listFolder"}}
\* the calls whose failure the loop over the items catches
AttachOps == {"addMetadataToItem", "addMetadataToFolder"}
FailedSidecarCalls ==
    {k \in 1..Len(log) :
        /\ ~log[k].ok /\ log[k].op \in {"listFile", "downloadFile"} \cup AttachOps
        /\ \E r \in mdone : /\ r.run = log[k].run /\ r.name = log[k].name
                            /\ r.outcome \in {"unreadable", "attach_failed"}}

Sidecars(F) == {i \in DOMAIN items : items[i].folderId = F /\ is_bids_item(items[i].name)}
Handled(i) == \E x \in mdone : x.item = i
PendingItem(i) == \E k \in 1..Len(mstack) : i \in mstack[k].items
PendingFolder(G) ==
    \E k \in 1..Len(mstack) : \E d \in mstack[k].dirs : G \in Descendants(folders, d)

\* the run is in the metadata pass or past it
InMetadataPass == pc \in {"metadata", "done"}

\* C17: no failure of the metadata pass makes upload_to_girder fail: after a
\* failed listing of the pass the pass is over and the run has succeeded;
\* after a failed file listing, download, parsing or attachment of one
\* sidecar, every sidecar of the same folder and of the folders beneath it has
\* been handled or is still to be handled (unless a listing failed later).
C17_MetadataFailuresNeverFatal ==
    /\ (InMetadataPass /\ FailedListings # {}) => (pc = "done" /\ mstack = <<>>)
    /\ \A r \in mdone : r.run = run => InMetadataPass
    /\ \A r \in mdone :
          (r.outcome \in {"unreadable", "attach_failed"} /\ FailedListings = {}) =>
              \A G \in Descendants(folders, r.folder) :
                  \A i \in Sidecars(G) : Handled(i) \/ PendingItem(i) \/ PendingFolder(G)

\* the download or the attachment failed for a sidecar of the destination
\* folder; after that another sidecar of the same folder and a sidecar of a
\* child folder were attached, and the run succeeded
C17_Witness ==
    /\ pc = "done"
    /\ \E k \in FailedSidecarCalls, r, r2, r3 \in mdone :
          /\ r.folder = RootId /\ r.name = log[k].name
          /\ r.outcome \in {"unreadable", "attach_failed"}
          /\ r2.folder = RootId /\ r2.name # r.name /\ r2.outcome = "attached"
          /\ r3.folder # RootId /\ r3.outcome = "attached"
          /\ \E j \in (k + 1)..Len(log) :
                /\ log[j].op \in AttachOps /\ log[j].ok
                /\ log[j].name = r2.name /\ log[j].target = r2.assoc[1]
                /\ \E h \in (j + 1)..Len(log) :
                      /\ log[h].op \in AttachOps /\ log[h].ok
                      /\ log[h].target = r3.assoc[1] /\ r3.assoc[1] # r2.assoc[1]

\* the path of a folder beneath the destination folder, relative to it
RECURSIVE FolderPath(_, _)
FolderPath(fs, f) ==
    IF f = RootId THEN <<>> ELSE Append(FolderPath(fs, fs[f].parentId), fs[f].name)

ReachableFolders == Descendants(folders, RootId)
ReachableItems == {i \in DOMAIN items : items[i].folderId \in ReachableFolders}
ItemPath(i) == Append(FolderPath(folders, items[i].folderId), items[i].name)

\* the sizes the first n files of an item report
RECURSIVE ReportedSize(_, _)
ReportedSize(files, n) ==
    IF n = 0 THEN 0
    ELSE ReportedSize(files, n - 1) + (IF "size" \in DOMAIN files[n] THEN files[n].size ELSE 0)

\* C19: after the remote scan of the destination folder, the mapping holds
\* exactly one record per item reachable from that folder, keyed by the
\* item's path relative to the folder, and the record's size is the sum of
\* the sizes of the item's files, a file without a size counting as 0.
C19_ScanSizes ==
    pc = "preflight" =>
        /\ DOMAIN girder_structure = {ItemPath(i) : i \in ReachableItems}
        /\ Cardinality(DOMAIN girder_structure) = Cardinality(ReachableItems)
        /\ \A i \in ReachableItems :
              /\ girder_structure[ItemPath(i)].item_id = i
              /\ girder_structure[ItemPath(i)].size
                    = ReportedSize(items[i].files, Len(items[i].files))

\* the scan met an item of a child folder that holds two sized files and one
\* without a size, while the store also holds an item outside the destination
C19_Witness ==
    /\ pc = "preflight"
    /\ <<AnatDir, T1wNiiGz>> \in DOMAIN girder_structure
    /\ girder_structure[<<AnatDir, T1wNiiGz>>].size = 550
    /\ Cardinality(DOMAIN girder_structure) >= 2
    /\ ReachableItems # DOMAIN items

(***************************************************************************)
(* SpecRemoteFair: SpecRemote with the walk in progress always taking its  *)
(* next step (the program is sequential and every remote call returns).    *)
(***************************************************************************)
SpecRemoteFair == RemoteStart(MaxRemoteItems - 1) /\ [][NextRemote]_vars /\ WF_vars(NextRemote)

\* the walk of the behaviour is over: the scan has returned to main or has
\* raised, the deletion has returned to upload_to_girder or has raised, or the
\* metadata pass has ended
WalkOver == pc \in {"preflight", "failed", "upload", "crashed", "done"}

\* the calls of the walk to a folder: the listing of its items by the walk
\* itself (the listings of get_associated_id carry the sidecar's name)
Visits(f) ==
    {k \in 1..Len(log) : log[k].op = "listItem" /\ log[k].target = f /\ log[k].name = NoName}

\* C20: on a finite store without cycles, with every remote call returning,
\* scan_girder_structure, delete_folder_contents and extract_bids_metadata
\* terminate; no folder is visited twice, and when no listing raised and the
\* scan was not cut short by a failed call every folder reachable from the destination folder was visited exactly once and
\* no other folder was visited.
C20_WalksTerminate ==
    /\ <>WalkOver
    /\ [](\A f \in DOMAIN snap.folders : Cardinality(Visits(f)) <= 1)
    /\ []((WalkOver /\ FailedListings = {} /\ pc # "failed") =>
            \A f \in DOMAIN snap.folders :
                Cardinality(Visits(f))
                    = IF f \in Descendants(snap.folders, RootId) THEN 1 ELSE 0)

\* the metadata pass has ended on a store with a folder inside a child folder
\* of the destination, each visited once
C20_Witness ==
    /\ pc = "done"
    /\ Descendants(snap.folders, 2) = {2, 3}
    /\ \A f \in {RootId, 2, 3} : Cardinality(Visits(f)) = 1
    /\ mdone # {}

\* the items of the walked folder, other than the sidecar's own, whose name
\* matches the sidecar exactly or by prefix
OtherMatches(r) ==
    {i \in ChildItems(items, r.folder) \ {r.item} :
        \/ items[i].name \in ExactNames(r.name)
        \/ StartsWith(items[i].name, SplitextRoot(r.name))}

\* C24: a sidecar other than dataset_description.json is never associated
\* with its own item, and when its folder holds no other item matching it
\* exactly or by prefix the association is a miss: nothing is attached for it.
C24_NeverOwnItem ==
    \A r \in mdone :
        r.name # DescJson =>
            /\ r.assoc[1] # r.item
            /\ OtherMatches(r) = {} => r.outcome = "miss" /\ r.assoc[2] = "none"

\* what the code does instead: the sidecar's own item always matches by
\* prefix, so the association of a listed sidecar is never a miss
C24_MissUnreachable ==
    \A r \in mdone : r.outcome # "miss" /\ r.assoc[2] # "none"

C24_SelfAssociated ==
    \E r \in mdone :
        /\ r.name = T1wJson
        /\ OtherMatches(r) = {}
        /\ r.assoc = <<r.item, "item">>
        /\ r.outcome = "attached"
        /\ items[r.item].files[1].data \in items[r.item].meta

(***************************************************************************)
(* Claims about the order of the phases of a run, checked under SpecSync   *)
(***************************************************************************)
CreationOps == {"createFolder", "createItem", "upload", "uploadFileToItem"}
CreationsOfRun == {k \in CallsOfRun : log[k].op \in CreationOps}
AttachmentsOfRun == {k \in CallsOfRun : log[k].op \in AttachOps}

\* C25: the phases of a run are ordered. While the scans and the
\* reconciliation are still to come or have just been made, the run has
\* issued no folder creation, item creation or upload; once one was issued
\* the results of the scans, the comparison and the skip-set no longer
\* change; and a metadata attachment is issued only after the upload pass
\* has returned, so that no call of the upload pass follows one.
C25_PhasesOrdered ==
    /\ [](LET calls == CallsOfRun
              creations == {k \in calls : log[k].op \in CreationOps}
              attachments == {k \in calls : log[k].op \in AttachOps}
              checks == {j \in calls : \E q \in 1..Len(PreflightOps) : log[j].op = PreflightOps[q]}
          IN  /\ pc \in {"main", "preflight"} => creations = {}
              /\ \A k \in creations : \A j \in checks : j < k
              /\ attachments # {} => stack = <<>> /\ pc \in {"metadata", "done"}
              /\ \A k \in attachments : \A j \in creations : j < k)
    /\ [][CreationsOfRun # {} /\ run' = run =>
             /\ skip_files' = skip_files /\ comparison' = comparison
             /\ local_files' = local_files /\ girder_structure' = girder_structure]_vars

\* a run with --skip-existing that scanned a non-empty destination, uploaded
\* into a sub-folder and attached metadata
C25_Witness ==
    /\ pc = "done"
    /\ args.skip_existing
    /\ \E k \in CallsOfRun : log[k].op = "listFile"
    /\ \E k \in CreationsOfRun : log[k].op = "createItem" /\ log[k].target # RootId
    /\ AttachmentsOfRun # {}

(***************************************************************************)
(* Claims about the metadata pass after an upload, checked under SpecSync  *)
(***************************************************************************)

\* the sidecar files stored in the remote tree: <<item, position>>
StoredSidecars ==
    UNION {{<<i, k>> : k \in {j \in 1..Len(items[i].files) : is_bids_item(items[i].files[j].name)}} :
              i \in ReachableItems}

\* the records that carry the content of the file at position k of item i
CarriedBy(i, k) ==
    {r \in mdone : /\ r.run = run
                   /\ r.outcome = "attached"
                   /\ r.folder = items[i].folderId
                   /\ r.name = items[i].files[k].name
                   /\ IF r.assoc[2] = "item"
                      THEN items[i].files[k].data \in items[r.assoc[1]].meta
                      ELSE items[i].files[k].data \in folders[r.assoc[1]].meta}

\* C23: when a failure-free upload run is over, every sidecar file stored in the
\* remote tree, a sidecar stored inside a composite item named after its
\* payload included, has been found by the metadata pass and its content is
\* attached to the record associated with it.
C23_EverySidecarAttached ==
    (pc = "done" /\ ~args.compare /\ NoFailureSoFar) =>
        \A s \in StoredSidecars : CarriedBy(s[1], s[2]) # {}

\* the sidecars the pass does find: those stored as the first file of an item
\* that carries their own name
C23_NamedSidecarsAttached ==
    (pc = "done" /\ ~args.compare /\ NoFailureSoFar) =>
        \A s \in StoredSidecars :
            (s[2] = 1 /\ items[s[1]].name = items[s[1]].files[1].name)
                => CarriedBy(s[1], s[2]) # {}

C23_NamedWitness ==
    /\ pc = "done" /\ ~args.compare /\ NoFailureSoFar
    /\ \E s \in StoredSidecars :
          /\ items[s[1]].name = T1wJson
          /\ items[s[1]].folderId # RootId
          /\ CarriedBy(s[1], s[2]) # {}

(***************************************************************************)
(* Claims about the remote tree the upload builds, checked under SpecUpload *)
(***************************************************************************)

\* C26: every item creation and every direct upload issued for a file of
\* local directory D targets the remote folder of D: the destination folder
\* for the scan root, and otherwise the child, named as D, of the remote
\* folder of D's parent directory. A folder created for D is that child.
C26_StructurePreserved ==
    \A k \in 1..Len(log) :
        /\ log[k].op \in {"createItem", "upload"} =>
              /\ log[k].target \in DOMAIN folders
              /\ FolderPath(folders, log[k].target) = log[k].dir
        /\ (log[k].op = "createFolder" /\ log[k].ok) =>
              /\ folders[log[k].ret].parentId = log[k].target
              /\ folders[log[k].ret].name = log[k].name
              /\ FolderPath(folders, log[k].ret) = log[k].dir

\* a pair went into the folder of anat and a single file into the folder of
\* a directory below it
C26_Witness ==
    /\ \E k \in 1..Len(log) :
          /\ log[k].op = "createItem" /\ log[k].ok
          /\ log[k].dir = <<AnatDir>>
          /\ folders[log[k].target].parentId = RootId
    /\ \E k \in 1..Len(log) :
          /\ log[k].op = "upload" /\ log[k].ok
          /\ log[k].dir = <<AnatDir, <<"ses-01">> >>
          /\ folders[folders[log[k].target].parentId].name = AnatDir

(***************************************************************************)
(* Claims about RESET_DATABASE mode, checked under SpecSync                *)
(***************************************************************************)
DeletesOfRun == {k \in CallsOfRun : log[k].op \in {"deleteItem", "deleteFolder"}}
DeleteOf(op, id) == {k \in DeletesOfRun : log[k].op = op /\ log[k].target = id}
FolderChecked == \E g \in CallsOfRun : log[g].op = "getFolder" /\ log[g].ok
DeletePassOver ==
    args.reset /\ ~args.compare /\ FolderChecked /\ pc \notin {"reset", "deleting", "crashed"}

\* C27: in RESET_DATABASE mode every delete call follows the successful
\* getFolder and precedes every folder creation, item creation and upload of
\* the run; before a folder is deleted, a delete was issued for every item and
\* every folder it held; when no delete failed the destination folder is
\* empty as the upload pass begins; and whatever delete failed, a delete was
\* issued for every item and every folder below the destination folder.
C27_ResetDeletes ==
    LET calls == CallsOfRun
        dels == {k \in calls : log[k].op \in {"deleteItem", "deleteFolder"}}
        creations == {k \in calls : log[k].op \in CreationOps}
        checked == {g \in calls : log[g].op = "getFolder" /\ log[g].ok}
        \* the items and folders a delete was issued for before call k
        gone(op, k) == {log[j].target : j \in {h \in dels : h < k /\ log[h].op = op}}
        held(f) == {i \in DOMAIN RunStart.items :
                      RunStart.items[i].folderId \in Descendants(RunStart.folders, f)}
    IN  /\ dels # {} =>
              /\ args.reset
              /\ \A k \in dels :
                    /\ \E g \in checked : g < k
                    /\ \A c \in creations : k < c
                    /\ log[k].op = "deleteFolder" =>
                          /\ held(log[k].target) \subseteq gone("deleteItem", k)
                          /\ Descendants(RunStart.folders, log[k].target) \ {log[k].target}
                                \subseteq gone("deleteFolder", k)
        /\ (args.reset /\ pc = "upload" /\ \A k \in dels : log[k].ok) =>
              ChildItems(items, RootId) = {} /\ ChildFolders(folders, RootId) = {}
        /\ (args.reset /\ ~args.compare /\ pc \notin {"reset", "deleting", "crashed"}
                /\ checked # {}) =>
              /\ held(RootId) \subseteq gone("deleteItem", Len(log) + 1)
              /\ Descendants(RunStart.folders, RootId) \ {RootId}
                    \subseteq gone("deleteFolder", Len(log) + 1)

\* a reset of a destination holding a folder in a folder: the delete of an
\* item failed, the deletions went on down to the inner folder, and the run
\* went on to upload
C27_Witness ==
    /\ DeletePassOver
    /\ \E k \in DeletesOfRun : ~log[k].ok /\ log[k].op = "deleteItem"
    /\ \E k \in DeletesOfRun :
          /\ log[k].op = "deleteFolder" /\ log[k].ok
          /\ RunStart.folders[log[k].target].parentId # RootId
    /\ CreationsOfRun # {}

====
